---------------------------- MODULE Spec2Model ----------------------------
(***************************************************************************)
(* Covered-call system: the exit-rule engine (core/position_monitor.py),   *)
(* the decision log (core/trade_decision_tracker.py), the position ledger  *)
(* and its views (core/position_manager.py), the growth analyzer           *)
(* (core/growth_analyzer_enhanced.py), the options scanner                 *)
(* (core/options_scanner.py), the whale tracker (core/whale_tracker.py),   *)
(* the enhanced whale tracker (core/whale_tracker_enhanced.py with         *)
(* utils/data_validator.py), the whale-flow log                            *)
(* (core/whale_flow_tracker_simple.py) and the trade tracker               *)
(* (core/trade_tracker.py) with the monitoring pass and the alert filter   *)
(* of the exit-rule engine over its rows.                                  *)
(*                                                                         *)
(* Money is counted in cents (a cost basis handed to the ledger in mills,  *)
(* 1/1000 dollar, so that round(x, 2) has something to round).  A          *)
(* profit_pct is the exact fraction <<num, den>> of two cent amounts; the  *)
(* code compares the float quotient with 0.50 and 0.40, the model compares *)
(* by cross-multiplication.                                                *)
(*                                                                         *)
(* Each component has its own specification (SpecMonitor, SpecDecisions,   *)
(* SpecStatistics, SpecLedger, SpecShared, SpecQueries, SpecGrowth,        *)
(* SpecScanner, SpecWhale, SpecEnhanced, SpecFlowLog, SpecTracker,         *)
(* SpecAlerts); the variables of the other components stay at their        *)
(* initial value.                                                          *)
(***************************************************************************)
EXTENDS Integers, Sequences, FiniteSets, TLC

VARIABLES
    mcall,      \* position monitor: the last call and its result
    decisions,  \* TradeDecisionTracker.decisions, a list of Decision records
    dcall,      \* decision log: the last call and its result
    positions,  \* positions[m]: the self.positions dict of PositionManager m
    store,      \* the contents of the positions file (data/positions.json)
    lcall,      \* ledger: the last call, its arguments and its result
    qcall,      \* ledger: the last query and what it returned
    scall,      \* options scanner: the call and its result
    gcall,      \* growth analyzer: the call and its result
    wcall,      \* whale tracker: the call and its result
    flows,      \* SimpleWhaleFlowTracker.flows, the logged flows
    followed_flows, \* SimpleWhaleFlowTracker.followed_flows, by flow id
    trades,     \* TradeTracker: the rows of table trade_opportunities
    tcall,      \* TradeTracker: the last call and its result
    alerts_shown    \* PositionMonitor.alerts_shown, a set of alert ids

vars == <<mcall, decisions, dcall, positions, store, lcall, qcall, scall, gcall, wcall,
          flows, followed_flows, trades, tcall, alerts_shown>>

monitorVars  == <<mcall, alerts_shown>>
decisionVars == <<decisions, dcall>>
ledgerVars   == <<positions, store, lcall>>
queryVars    == <<qcall>>
scannerVars  == <<scall>>
growthVars   == <<gcall>>
whaleVars    == <<wcall>>
flowLogVars  == <<flows, followed_flows>>
trackerVars  == <<trades, tcall>>

\* An optional value (Python's None, or a key that a dict does not hold) is a
\* sequence of length 0; a value v that is present is <<v>>.
None == <<>>
Some(v) == <<v>>
Get(opt, default) == IF opt = None THEN default ELSE opt[1]

Max(a, b) == IF a >= b THEN a ELSE b
Min(a, b) == IF a <= b THEN a ELSE b

\* Before a component is called its call variable holds NoCall.
NoCall == [call |-> "none"]
QueriesIdle == qcall = NoCall
ScannerIdle == scall = NoCall
GrowthIdle  == gcall = NoCall
WhaleIdle   == wcall = NoCall
AnalysisIdle == ScannerIdle /\ GrowthIdle /\ WhaleIdle
FlowLogIdle == flows = <<>> /\ followed_flows = <<>>
TrackerIdle == trades = <<>> /\ tcall = NoCall

(***************************************************************************)
(*                       POSITION MONITOR (21-50-7)                        *)
(***************************************************************************)

DTE_MONITOR     == 21
PROFIT_TARGET   == 50      \* 0.50, in hundredths
DTE_FORCE_CLOSE == 7
DEFAULT_ORIGINAL_DTE == 45

\* Bounds of the monitor's inputs.
MaxDte   == 33             \* the furthest expiration, in days from now
PastDays == 2              \* how many days an expiration may lie in the past
NowDay   == 10             \* the calendar day of datetime.now()

\* profit_pct >= h/100 for the fraction p = <<num, den>>, den > 0.
PctGE(p, h) == p[1] * 100 >= h * p[2]

\* _determine_action(dte, profit_pct) -> (action, priority); the reason text
\* is left out.
DetermineActionBadUrgent(dte, p) ==
    IF PctGE(p, PROFIT_TARGET) THEN <<"CLOSE_NOW", "HIGH">>
    ELSE IF dte <= DTE_FORCE_CLOSE THEN
        IF dte <= 1 THEN <<"CLOSE_NOW", "CRITICAL">>
        ELSE IF dte < 3 THEN <<"CLOSE_NOW", "URGENT">>
        ELSE <<"CLOSE_NOW", "HIGH">>
    ELSE IF dte <= DTE_MONITOR THEN
        IF PctGE(p, 40) THEN <<"MONITOR", "MEDIUM">>
        ELSE <<"MONITOR", "LOW">>
    ELSE IF dte <= 30 THEN <<"APPROACHING", "INFO">>
    ELSE <<"NONE", "INFO">>

\* The same with the 7-DTE rule tried before the profit rule.
DetermineActionDteFirst(dte, p) ==
    IF dte <= DTE_FORCE_CLOSE THEN
        IF dte <= 1 THEN <<"CLOSE_NOW", "CRITICAL">>
        ELSE IF dte <= 3 THEN <<"CLOSE_NOW", "URGENT">>
        ELSE <<"CLOSE_NOW", "HIGH">>
    ELSE IF PctGE(p, PROFIT_TARGET) THEN <<"CLOSE_NOW", "HIGH">>
    ELSE IF dte <= DTE_MONITOR THEN
        IF PctGE(p, 40) THEN <<"MONITOR", "MEDIUM">>
        ELSE <<"MONITOR", "LOW">>
    ELSE IF dte <= 30 THEN <<"APPROACHING", "INFO">>
    ELSE <<"NONE", "INFO">>

DetermineAction(dte, p) ==
    IF PctGE(p, PROFIT_TARGET) THEN <<"CLOSE_NOW", "HIGH">>
    ELSE IF dte <= DTE_FORCE_CLOSE THEN
        IF dte <= 1 THEN <<"CLOSE_NOW", "CRITICAL">>
        ELSE IF dte <= 3 THEN <<"CLOSE_NOW", "URGENT">>
        ELSE <<"CLOSE_NOW", "HIGH">>
    ELSE IF dte <= DTE_MONITOR THEN
        IF PctGE(p, 40) THEN <<"MONITOR", "MEDIUM">>
        ELSE <<"MONITOR", "LOW">>
    ELSE IF dte <= 30 THEN <<"APPROACHING", "INFO">>
    ELSE <<"NONE", "INFO">>

\* floor(sqrt(x)) for x >= 0, by bisection on lo <= sqrt(x) < hi.
RECURSIVE IsqrtIn(_, _, _)
IsqrtIn(x, lo, hi) ==
    IF hi - lo <= 1 THEN lo
    ELSE LET mid == (lo + hi) \div 2
         IN  IF mid * mid <= x THEN IsqrtIn(x, mid, hi) ELSE IsqrtIn(x, lo, mid)

\* round(e * (d / o) ** 0.5) in cents for e >= 0, d >= 0, o > 0:
\* floor(y + 1/2) with y = e * sqrt(d/o), which is (floor(2y) + 1) div 2, and
\* 2y = sqrt(4 e^2 d / o) < 2 e d + 1.
DecayRound(e, d, o) ==
    (IsqrtIn((4 * e * e * d) \div o, 0, 2 * e * d + 1) + 1) \div 2

\* _estimate_option_price raises TypeError: (dte / original_dte) ** 0.5 is a
\* complex number for dte < 0 < original_dte, and round() refuses it.
EstimateRaises(trade, dte) ==
    Get(trade.original_dte, DEFAULT_ORIGINAL_DTE) > 0 /\ dte < 0

\* _estimate_option_price(trade, current_stock_price, dte), in cents, where
\* it does not raise.
EstimateOptionPrice(trade, current_stock_price, dte) ==
    LET original_price == trade.premium
        strike == trade.strike
        original_dte == Get(trade.original_dte, DEFAULT_ORIGINAL_DTE)
        intrinsic_value == Max(0, current_stock_price - strike)
        original_extrinsic == original_price
                              - Max(0, trade.underlying_price[1] - strike)
        current_extrinsic ==
            IF original_dte > 0 /\ dte >= 0 THEN
                IF original_extrinsic >= 0
                THEN DecayRound(original_extrinsic, dte, original_dte)
                ELSE 0 - DecayRound(0 - original_extrinsic, dte, original_dte)
            ELSE 0
        estimated_price == intrinsic_value + current_extrinsic
    IN  IF dte > 0 THEN Max(5, estimated_price) ELSE estimated_price

\* (exp_date - today).days: exp_date is midnight of the expiration day, today
\* is now, so any time of day after midnight costs a whole day.
DaysBetween(expDay, nowDay, atMidnight) ==
    IF atMidnight THEN expDay - nowDay ELSE expDay - nowDay - 1

\* Two decimal digits.
Pad2(n) == IF n < 10 THEN "0" \o ToString(n) ELSE ToString(n)

\* str() of a REAL given in cents: 100.0, 100.5, 100.25.
FloatText(cents) ==
    ToString(cents \div 100) \o "."
        \o (IF cents % 10 = 0 THEN ToString((cents % 100) \div 10) ELSE Pad2(cents % 100))

\* The '%Y-%m-%d' text of a day number: day 1 is 2026-11-01.
DateText(day) ==
    IF day <= 30 THEN "2026-11-" \o Pad2(day) ELSE "2026-12-" \o Pad2(day - 30)

\* f"{symbol}_{trade['strike']}_{trade['expiration']}_{action}"
AlertId(symbol, strike, expiration, action) ==
    symbol \o "_" \o FloatText(strike) \o "_" \o DateText(expiration) \o "_" \o action

\* _analyze_position(trade, current_prices); price is current_prices[symbol],
\* or None when the symbol has no entry.  The default of dict.get is
\* evaluated before the call, so a trade without 'underlying_price' raises
\* KeyError whether or not the symbol has a price.
AnalyzePosition(trade, price, nowDay, atMidnight) ==
    LET dte == DaysBetween(trade.expiration, nowDay, atMidnight)
    IN  IF trade.underlying_price = None THEN [status |-> "KeyError"]
        ELSE
        IF EstimateRaises(trade, dte) THEN [status |-> "TypeError"]
        ELSE
            LET current_price == Get(price, trade.underlying_price[1])
                current_option_price == EstimateOptionPrice(trade, current_price, dte)
                entry_price == trade.premium
                current_profit == entry_price - current_option_price
                profit_pct == IF entry_price > 0 THEN <<current_profit, entry_price>>
                              ELSE <<0, 1>>
                act == DetermineAction(dte, profit_pct)
            IN  [status |-> "ok", symbol |-> trade.symbol, dte |-> dte,
                 entry_price |-> entry_price,
                 current_price |-> current_option_price,
                 current_profit |-> current_profit,
                 profit_pct |-> profit_pct,
                 action |-> act[1], priority |-> act[2],
                 alert_id |-> AlertId(trade.symbol, trade.strike, trade.expiration,
                                      act[1])]

\* The inputs of the monitor.
MonitorDtes == (0 - PastDays) .. MaxDte

ProfitPcts == {<<n, d>> : n \in {-50, 0, 10, 39, 40, 49, 50, 51, 100}, d \in {100}}
              \cup {<<n, 250>> : n \in {99, 100, 124, 125, 126}}

MonitorTrades ==
    [symbol : {"AAPL"}, strike : {10000}, premium : {0, 100, 215},
     underlying_price : {None, Some(9500), Some(10100)},
     original_dte : {None, Some(30), Some(0)},
     expiration : (NowDay - PastDays) .. (NowDay + MaxDte)]

MonitorPrices == {None, Some(9000), Some(10050), Some(10300)}

NoMonitorCall == [call |-> "none"]

\* The calls a run may make: the arguments are drawn when the run starts, the
\* call is then made once.
MonitorCalls ==
    {[call |-> "determine", dte |-> dte, profit_pct |-> p, done |-> FALSE,
      result |-> None] : dte \in MonitorDtes, p \in ProfitPcts}
    \cup
    {[call |-> "analyze", trade |-> trade, price |-> price,
      atMidnight |-> atMidnight, done |-> FALSE, result |-> None] :
        trade \in MonitorTrades, price \in MonitorPrices, atMidnight \in BOOLEAN}

\* A direct call of _determine_action.
DetermineActionCall ==
    /\ mcall.call = "determine" /\ ~mcall.done
    /\ mcall' = [mcall EXCEPT !.done = TRUE,
                     !.result = DetermineAction(mcall.dte, mcall.profit_pct)]
    /\ UNCHANGED <<alerts_shown, decisionVars, ledgerVars, queryVars, scannerVars, growthVars, whaleVars, flowLogVars, trackerVars>>

\* One trade of a monitoring pass: check_positions calls _analyze_position.
AnalyzePositionCall ==
    /\ mcall.call = "analyze" /\ ~mcall.done
    /\ mcall' = [mcall EXCEPT !.done = TRUE,
                     !.result = AnalyzePosition(mcall.trade, mcall.price, NowDay,
                                                mcall.atMidnight)]
    /\ UNCHANGED <<alerts_shown, decisionVars, ledgerVars, queryVars, scannerVars, growthVars, whaleVars, flowLogVars, trackerVars>>

NoDecisionCall == [call |-> "none"]
NoLedgerCall   ==
    [call |-> "none", m |-> 0, key |-> "", new_key |-> "", ret |-> "", w |-> "", n |-> 0]

DecisionsIdle == decisions = <<>> /\ dcall = NoDecisionCall
LedgerIdle    == positions = <<>> /\ store = <<>> /\ lcall = NoLedgerCall

InitMonitor ==
    /\ mcall \in MonitorCalls
    /\ alerts_shown = {}
    /\ DecisionsIdle
    /\ LedgerIdle
    /\ QueriesIdle
    /\ FlowLogIdle
    /\ TrackerIdle
    /\ AnalysisIdle

NextMonitor ==
    \/ DetermineActionCall
    \/ AnalyzePositionCall

SpecMonitor == InitMonitor /\ [][NextMonitor]_vars

\* The result of a finished _determine_action call, and of a finished
\* _analyze_position call that returned.
Determined == mcall.call = "determine" /\ mcall.done
Analysed   == mcall.call = "analyze" /\ mcall.done /\ mcall.result.status = "ok"

\* C1: _determine_action follows the first-match-wins order: profit_pct >= 0.50
\* gives CLOSE_NOW/HIGH whatever dte is; otherwise dte <= 7 gives CLOSE_NOW with
\* CRITICAL for dte <= 1, URGENT for dte <= 3, HIGH otherwise; otherwise
\* dte <= 21 gives MONITOR with MEDIUM for profit_pct >= 0.40 and LOW otherwise;
\* otherwise dte <= 30 gives APPROACHING/INFO; otherwise NONE/INFO.
C1_FirstMatchWins ==
    Determined =>
        LET dte == mcall.dte
            hit50 == mcall.profit_pct[1] * 2 >= mcall.profit_pct[2]
            hit40 == mcall.profit_pct[1] * 5 >= 2 * mcall.profit_pct[2]
            r == mcall.result
        IN  /\ hit50 => r = <<"CLOSE_NOW", "HIGH">>
            /\ (~hit50 /\ dte <= 1) => r = <<"CLOSE_NOW", "CRITICAL">>
            /\ (~hit50 /\ dte \in 2..3) => r = <<"CLOSE_NOW", "URGENT">>
            /\ (~hit50 /\ dte \in 4..7) => r = <<"CLOSE_NOW", "HIGH">>
            /\ (~hit50 /\ dte \in 8..21 /\ hit40) => r = <<"MONITOR", "MEDIUM">>
            /\ (~hit50 /\ dte \in 8..21 /\ ~hit40) => r = <<"MONITOR", "LOW">>
            /\ (~hit50 /\ dte \in 22..30) => r = <<"APPROACHING", "INFO">>
            /\ (~hit50 /\ dte > 30) => r = <<"NONE", "INFO">>

\* C1 witness: dte = 7 with profit_pct = 0.10 was decided by the 7-DTE rule.
C1_Witness ==
    /\ Determined
    /\ mcall.dte = 7
    /\ mcall.profit_pct = <<10, 100>>
    /\ mcall.result = <<"CLOSE_NOW", "HIGH">>

\* C2 as claimed: every trade analysed with dte <= 1 is reported CLOSE_NOW with
\* priority CRITICAL, whatever its profit_pct.
C2_Original ==
    (Analysed /\ mcall.result.dte <= 1) =>
        (mcall.result.action = "CLOSE_NOW" /\ mcall.result.priority = "CRITICAL")

\* C2 amended: every trade analysed with dte <= 1 is reported CLOSE_NOW; its
\* priority is CRITICAL when profit_pct < 0.50 and HIGH when profit_pct >= 0.50
\* (the profit rule is tried first).
C2_CriticalUnlessProfit ==
    (Analysed /\ mcall.result.dte <= 1) =>
        /\ mcall.result.action = "CLOSE_NOW"
        /\ mcall.result.priority =
               IF 2 * mcall.result.current_profit >= mcall.result.entry_price
                  /\ mcall.result.entry_price > 0
               THEN "HIGH" ELSE "CRITICAL"

\* C2 witness: a trade one day from expiration, in the money and at a loss, was
\* analysed and reported CRITICAL.
C2_Witness ==
    /\ Analysed
    /\ mcall.result.dte = 1
    /\ mcall.result.current_profit < 0
    /\ mcall.result.priority = "CRITICAL"

(***************************************************************************)
(*                            DECISION LOG                                 *)
(***************************************************************************)

MaxDecisions == 2          \* bound: how many opportunities are logged

DecisionValues == {"TAKE", "PASS", "PENDING"}
OutcomeValues  == {"WIN", "LOSS", "EXPIRED_WORTHLESS", "CLOSED_EARLY"}

\* The opportunities shown: premium, strike and current_price in cents.
Opportunities == {[premium |-> 150, strike |-> 10000, current_price |-> 9800]}

\* closed_price arguments of record_outcome; 0 is falsy in "if closed_price:".
ClosedPrices == {None, Some(0), Some(50)}

\* The updates dicts handed to update_decision: the documented use (changing
\* the decision) and, since dict.update takes any key, an outcome.
Updates ==
    {[decision |-> d] : d \in {"TAKE", "PASS"}}
    \cup {[outcome |-> Some("WIN")]}

\* The index of the first decision whose id is decision_id, 0 when the loop
\* finds none.  The id of a decision is its timestamped key; the model uses the
\* position at which it was appended, which no later call changes.
FindDecision(decision_id) ==
    IF decision_id \in 1..Len(decisions) THEN decision_id ELSE 0

\* log_opportunity(opportunity, decision, notes): append the record with the
\* outcome fields empty, save, return its id.
LogOpportunity(opportunity, decision) ==
    /\ Len(decisions) < MaxDecisions
    /\ decisions' = Append(decisions,
           [id |-> Len(decisions) + 1,
            decision |-> decision,
            premium |-> opportunity.premium,
            strike |-> opportunity.strike,
            current_price |-> opportunity.current_price,
            outcome |-> None,
            actual_return |-> None])
    /\ dcall' = [call |-> "log_opportunity", id |-> Len(decisions) + 1, ret |-> TRUE]
    /\ UNCHANGED <<monitorVars, ledgerVars, queryVars, scannerVars, growthVars, whaleVars, flowLogVars, trackerVars>>

\* dict.update(updates) on one decision record.
DictUpdate(d, updates) ==
    [k \in DOMAIN d |-> IF k \in DOMAIN updates THEN updates[k] ELSE d[k]]

\* update_decision(decision_id, updates) -> bool
UpdateDecision(decision_id, updates) ==
    LET i == FindDecision(decision_id)
    IN  /\ IF i = 0
           THEN decisions' = decisions
           ELSE decisions' = [decisions EXCEPT ![i] = DictUpdate(@, updates)]
        /\ dcall' = [call |-> "update_decision", id |-> decision_id, ret |-> (i # 0)]
        /\ UNCHANGED <<monitorVars, ledgerVars, queryVars, scannerVars, growthVars, whaleVars, flowLogVars, trackerVars>>

\* The actual_return record_outcome leaves in decision d.
ActualReturn(d, outcome, closed_price) ==
    IF d.decision = "TAKE" THEN
        IF outcome = "EXPIRED_WORTHLESS" THEN Some(d.premium)
        ELSE IF outcome = "CLOSED_EARLY" /\ closed_price # None /\ closed_price # Some(0)
             THEN Some(d.premium - closed_price[1])
        ELSE IF outcome = "LOSS"
             THEN Some(d.premium + (d.strike - d.current_price))
        ELSE d.actual_return
    ELSE d.actual_return

\* record_outcome(decision_id, outcome, stock_price_at_exp, closed_price) -> bool
\* (closed_date and the days_held it gives are left out).
RecordOutcome(decision_id, outcome, closed_price) ==
    LET i == FindDecision(decision_id)
    IN  /\ IF i = 0
           THEN decisions' = decisions
           ELSE LET d == decisions[i]
                IN  decisions' = [decisions EXCEPT ![i] =
                        [d EXCEPT !.outcome = Some(outcome),
                                  !.actual_return = ActualReturn(d, outcome, closed_price)]]
        /\ dcall' = [call |-> "record_outcome", id |-> decision_id, ret |-> (i # 0)]
        /\ UNCHANGED <<monitorVars, ledgerVars, queryVars, scannerVars, growthVars, whaleVars, flowLogVars, trackerVars>>

MonitorIdle == mcall = NoMonitorCall /\ alerts_shown = {}

InitDecisions ==
    /\ decisions = <<>>
    /\ dcall = NoDecisionCall
    /\ MonitorIdle
    /\ LedgerIdle
    /\ QueriesIdle
    /\ FlowLogIdle
    /\ TrackerIdle
    /\ AnalysisIdle

\* Ids the callers name: those logged, and one that was never logged.
DecisionIds == 1..(MaxDecisions + 1)

NextDecisions ==
    \/ \E o \in Opportunities, d \in DecisionValues : LogOpportunity(o, d)
    \/ \E id \in DecisionIds, oc \in OutcomeValues, cp \in ClosedPrices :
           RecordOutcome(id, oc, cp)
    \/ \E id \in DecisionIds, u \in Updates : UpdateDecision(id, u)

SpecDecisions == InitDecisions /\ [][NextDecisions]_vars

\* C3 as claimed: once record_outcome has set the outcome of a decision, the
\* next call (and so every later call) on the log leaves that decision's outcome
\* and actual_return as they are.
C3_Original ==
    [][(dcall.call = "record_outcome" /\ dcall.ret)
        => /\ decisions'[dcall.id].outcome = decisions[dcall.id].outcome
           /\ decisions'[dcall.id].actual_return = decisions[dcall.id].actual_return]_vars

\* C4 as claimed: in every reachable state of the log a decision whose outcome
\* or actual_return is set has decision = TAKE.
C4_Original ==
    \A i \in 1..Len(decisions) :
        (decisions[i].outcome # None \/ decisions[i].actual_return # None)
            => decisions[i].decision = "TAKE"

(***************************************************************************)
(*                           POSITION LEDGER                               *)
(*                                                                         *)
(* A ledger (the self.positions dict) is a function from position keys to  *)
(* position records.  date_added is left out.  Share counts are integers,  *)
(* on which int(shares) is the identity.                                   *)
(***************************************************************************)

MaxCalls == 2              \* bound: how many ledger calls a run makes

\* str.upper() on the strings the model uses.
Upper(s) ==
    CASE s = "aapl"    -> "AAPL"
      [] s = "taxable" -> "TAXABLE"
      [] s = "roth"    -> "ROTH"
      [] OTHER         -> s

\* f"{symbol}_{account_type.upper()}"
PositionKey(symbol, account_type) == symbol \o "_" \o Upper(account_type)

\* round(float(cost_basis), 2): mills to cents, to the nearest cent (the model's
\* inputs hold no tie).
RoundCents(mills) == (mills + 5) \div 10

\* d[k] = v and del d[k] on a dict.
DictSet(d, k, v) == [j \in DOMAIN d \cup {k} |-> IF j = k THEN v ELSE d[j]]
DictDel(d, k)    == [j \in DOMAIN d \ {k} |-> d[j]]

EmptyLedger == <<>>

\* existing_shares + int(shares), with the added amount dropped instead.
AddedSharesKeep(existing_shares, shares) == existing_shares

\* existing_shares + int(shares)
AddedShares(existing_shares, shares) == existing_shares + shares

\* add_position up to its save: the ledger it leaves, its return message
\* ("added_more": "Added .. more shares to existing ..", "added": "Added ..
\* shares of ..") and the key it wrote (key: the key the call starts with,
\* new_key: the key it ends with).
AddResult(l, symbol0, shares, cost_basis, account_type, notes) ==
    LET symbol == Upper(symbol0)
        position_key == PositionKey(symbol, account_type)
    IN  IF position_key \in DOMAIN l
        THEN [ledger |-> [l EXCEPT ![position_key].shares =
                              AddedShares(l[position_key].shares, shares)],
              ret |-> "added_more", key |-> position_key, new_key |-> position_key]
        ELSE [ledger |-> DictSet(l, position_key,
                             [symbol |-> symbol,
                              shares |-> shares,
                              cost_basis |-> RoundCents(cost_basis),
                              account_type |-> account_type,
                              notes |-> notes,
                              position_key |-> position_key]),
              ret |-> "added", key |-> position_key, new_key |-> position_key]

\* The account-type branch of update_position on ledger l: the ledger and the
\* position key after it.
MoveAccount(l, position_key, account_type) ==
    IF account_type # None /\ account_type[1] # l[position_key].account_type
    THEN LET symbol == l[position_key].symbol
             new_key == PositionKey(symbol, account_type[1])
             moved == [l[position_key] EXCEPT !.account_type = account_type[1],
                                              !.position_key = new_key]
         IN  [ledger |-> DictDel(DictSet(l, new_key, moved), position_key),
              key |-> new_key]
    ELSE [ledger |-> l, key |-> position_key]

\* update_position up to its save; ret "KeyError" when the notes are written
\* to a key that the move has deleted.
UpdateResult(l, position_key, shares, cost_basis, account_type, notes) ==
    IF position_key \notin DOMAIN l
    THEN [ledger |-> l, ret |-> "not_found", key |-> position_key,
          new_key |-> position_key]
    ELSE
    LET l1 == IF shares # None
              THEN [l EXCEPT ![position_key].shares = shares[1]] ELSE l
        l2 == IF cost_basis # None
              THEN [l1 EXCEPT ![position_key].cost_basis = RoundCents(cost_basis[1])]
              ELSE l1
        mv == MoveAccount(l2, position_key, account_type)
    IN  IF notes # None
        THEN IF mv.key \in DOMAIN mv.ledger
             THEN [ledger |-> [mv.ledger EXCEPT ![mv.key].notes = notes[1]],
                   ret |-> "updated", key |-> position_key, new_key |-> mv.key]
             ELSE [ledger |-> mv.ledger, ret |-> "KeyError", key |-> position_key,
                   new_key |-> mv.key]
        ELSE [ledger |-> mv.ledger, ret |-> "updated", key |-> position_key,
              new_key |-> mv.key]

\* delete_position up to its save.
DeleteResult(l, position_key) ==
    IF position_key \in DOMAIN l
    THEN [ledger |-> DictDel(l, position_key), ret |-> "deleted",
          key |-> position_key, new_key |-> position_key]
    ELSE [ledger |-> l, ret |-> "not_found", key |-> position_key,
          new_key |-> position_key]

\* The return messages that report success, and those after which the method
\* has called save_positions.
SuccessRets == {"added", "added_more", "updated", "deleted"}

\* The positions file: valid JSON holding a ledger, or not parseable.
FileOf(l)   == [valid |-> TRUE, data |-> l]
CorruptFile == [valid |-> FALSE, data |-> EmptyLedger]

\* save_positions that never reaches the file.
SavedNothing(l, file, w) == file

\* save_positions on ledger l over the file: w = "ok" writes it; "fail_open"
\* is open() raising (a read-only file system), the file is as before;
\* "fail_write" is json.dump raising after open(.., 'w') truncated the file.
\* The exception is caught and a warning printed.
Saved(l, file, w) ==
    CASE w = "ok"         -> FileOf(l)
      [] w = "fail_open"  -> file
      [] w = "fail_write" -> CorruptFile

\* load_positions: the ledger read from the file, {} when it does not parse.
Loaded(file) == IF file.valid THEN file.data ELSE EmptyLedger

\* One call of a ledger method by manager m with result r (of AddResult,
\* UpdateResult or DeleteResult): the dict is changed, and on the paths that
\* reach self.save_positions() the file is written with outcome w.
LedgerCall(name, m, r, w) ==
    /\ lcall.n < MaxCalls
    /\ positions' = [positions EXCEPT ![m] = r.ledger]
    /\ store' = IF r.ret \in SuccessRets THEN Saved(r.ledger, store, w) ELSE store
    /\ lcall' = [call |-> name, m |-> m, key |-> r.key, new_key |-> r.new_key,
                 ret |-> r.ret,
                 w |-> IF r.ret \in SuccessRets THEN w ELSE "", n |-> lcall.n + 1]
    /\ UNCHANGED <<monitorVars, decisionVars, queryVars, scannerVars, growthVars, whaleVars, flowLogVars, trackerVars>>

AddPosition(m, symbol, shares, cost_basis, account_type, notes, w) ==
    LedgerCall("add_position", m,
               AddResult(positions[m], symbol, shares, cost_basis, account_type, notes), w)

UpdatePosition(m, position_key, shares, cost_basis, account_type, notes, w) ==
    LedgerCall("update_position", m,
               UpdateResult(positions[m], position_key, shares, cost_basis,
                            account_type, notes), w)

DeletePosition(m, position_key, w) ==
    LedgerCall("delete_position", m, DeleteResult(positions[m], position_key), w)

\* The arguments of the ledger calls.  The dashboard hands over share counts
\* >= 1 and cost bases >= 0.01 (ValidShares, ValidCosts); the screenshot import
\* and direct callers are not held to that (AnyShares, AnyCosts).
Symbols      == {"AAPL", "aapl", "MSFT"}
AccountTypes == {"taxable", "roth"}
ValidShares  == {50, 100}
ValidCosts   == {10504, 20006}             \* mills
AnyShares    == {-100, 0, 100}
AnyCosts     == {0, 10504}                 \* mills
UpdateNotes  == {"n"}
LedgerKeys   == {PositionKey(Upper(s), a) : s \in Symbols, a \in AccountTypes}
WriteOutcomes == {"ok", "fail_open", "fail_write"}

Optional(S) == {None} \cup {Some(v) : v \in S}

\* The ledgers an earlier session may have left in the file.
SavedOne == AddResult(EmptyLedger, "AAPL", 100, 10504, "taxable", "").ledger
SavedTwo == AddResult(SavedOne, "AAPL", 50, 20006, "roth", "").ledger
SavedLedgers == {EmptyLedger, SavedOne, SavedTwo}

\* __init__: every manager loads the file; a file that does not exist is
\* created holding {}.  (No key of the file is in the old symbol-only form, so
\* _migrate_positions_if_needed changes nothing.)
InitLedgerOf(managers, saved) ==
    /\ store \in {FileOf(l) : l \in saved}
    /\ positions = [m \in managers |-> Loaded(store)]
    /\ lcall = NoLedgerCall
    /\ MonitorIdle
    /\ DecisionsIdle
    /\ QueriesIdle
    /\ FlowLogIdle
    /\ TrackerIdle
    /\ AnalysisIdle

\* The calls of the managers, with arguments from the given sets.
NextLedgerOf(managers, symbols, shares, costs, writes) ==
    \/ \E m \in managers, sym \in symbols, sh \in shares, c \in costs,
          a \in AccountTypes, w \in writes :
           AddPosition(m, sym, sh, c, a, "", w)
    \/ \E m \in managers, k \in LedgerKeys, sh \in Optional(shares),
          c \in Optional(costs), a \in Optional(AccountTypes),
          nt \in Optional(UpdateNotes), w \in writes :
           UpdatePosition(m, k, sh, c, a, nt, w)
    \/ \E m \in managers, k \in LedgerKeys, w \in writes : DeletePosition(m, k, w)

\* One manager driven by the dashboard's forms; every write succeeds.
InitLedger == InitLedgerOf({1}, SavedLedgers)
NextLedger == NextLedgerOf({1}, Symbols, ValidShares, ValidCosts, {"ok"})
SpecLedger == InitLedger /\ [][NextLedger]_vars

\* One manager, any share count and cost basis; every write succeeds.
NextLedgerAny == NextLedgerOf({1}, {"AAPL", "MSFT"}, AnyShares, AnyCosts, {"ok"})
SpecLedgerAny == InitLedger /\ [][NextLedgerAny]_vars

\* One manager whose writes to the file may fail.
InitLedgerIO == InitLedgerOf({1}, {EmptyLedger, SavedOne})
NextLedgerIO == NextLedgerOf({1}, {"AAPL", "MSFT"}, {100}, {10504}, WriteOutcomes)
SpecLedgerIO == InitLedgerIO /\ [][NextLedgerIO]_vars

\* Two managers (two sessions) over the same file; every write succeeds.
InitShared == InitLedgerOf({1, 2}, {EmptyLedger, SavedOne})
NextShared == NextLedgerOf({1, 2}, {"AAPL", "MSFT"}, {100}, {10504}, {"ok"})
SpecShared == InitShared /\ [][NextShared]_vars

\* The shares a ledger holds for a symbol, summed over its keys.
RECURSIVE SumShares(_, _, _)
SumShares(l, keys, symbol) ==
    IF keys = {} THEN 0
    ELSE LET k == CHOOSE j \in keys : TRUE
         IN  (IF l[k].symbol = symbol THEN l[k].shares ELSE 0)
             + SumShares(l, keys \ {k}, symbol)

TotalShares(l, symbol) == SumShares(l, DOMAIN l, symbol)

\* The keys of ledger l whose position is in symbol / account type a.
Holding(l, symbol, a) ==
    {j \in DOMAIN l : l[j].symbol = symbol /\ Upper(l[j].account_type) = Upper(a)}

\* No two positions of a ledger share (symbol, account type).
OnePerPair(l) ==
    \A j, k \in DOMAIN l :
        (l[j].symbol = l[k].symbol
         /\ Upper(l[j].account_type) = Upper(l[k].account_type)) => j = k

\* C5: the ledger holds at most one position per (upper-cased symbol, account
\* type), and an add to a pair that already exists creates no new entry, adds
\* exactly the given shares to that position, and leaves its cost_basis and
\* every other position as they were.
C5_OnePositionPerPair ==
    /\ [](\A m \in DOMAIN positions : OnePerPair(positions[m]))
    /\ [][lcall'.call = "add_position" =>
          \A sym \in Symbols, sh \in ValidShares, c \in ValidCosts, a \in AccountTypes :
            LET old == positions[1]
                new == positions'[1]
                had == Holding(old, Upper(sym), a)
            IN  (had # {} /\ AddPosition(1, sym, sh, c, a, "", "ok")) =>
                    /\ DOMAIN new = DOMAIN old
                    /\ \A j \in DOMAIN old :
                          IF j \in had
                          THEN /\ new[j].shares = old[j].shares + sh
                               /\ new[j].cost_basis = old[j].cost_basis
                               /\ [new[j] EXCEPT !.shares = 0] = [old[j] EXCEPT !.shares = 0]
                          ELSE new[j] = old[j]]_vars

\* C5 witness: shares were added to an existing position next to another one.
C5_Witness ==
    /\ lcall.call = "add_position"
    /\ lcall.ret = "added_more"
    /\ Cardinality(DOMAIN positions[1]) = 2
    /\ positions[1][lcall.key].shares = 150

\* C6 as claimed: update_position(key, account_type = a) with a different from
\* the stored account type moves the position: the old key is gone, the key of
\* (symbol, a) holds its symbol, shares, cost_basis and notes, and the shares
\* held for the symbol over the whole ledger are unchanged.
C6_Original ==
    [][lcall'.call = "update_position" =>
       \A k \in LedgerKeys, a \in AccountTypes :
        LET old == positions[1]
            new == positions'[1]
        IN  (/\ k \in DOMAIN old
             /\ a # old[k].account_type
             /\ UpdatePosition(1, k, None, None, Some(a), None, "ok")) =>
                LET nk == PositionKey(old[k].symbol, a)
                IN  /\ k \notin DOMAIN new
                    /\ nk \in DOMAIN new
                    /\ new[nk].symbol = old[k].symbol
                    /\ new[nk].shares = old[k].shares
                    /\ new[nk].cost_basis = old[k].cost_basis
                    /\ new[nk].notes = old[k].notes
                    /\ TotalShares(new, old[k].symbol) = TotalShares(old, old[k].symbol)]_vars

\* C7 as claimed: update_position that changes the account type to one for
\* which the ledger already holds the symbol returns an error and leaves the
\* ledger as it was.
C7_Original ==
    [][lcall'.call = "update_position" =>
       \A k \in LedgerKeys, sh \in Optional(ValidShares), c \in Optional(ValidCosts),
         a \in AccountTypes, nt \in Optional(UpdateNotes) :
        LET old == positions[1]
        IN  (/\ k \in DOMAIN old
             /\ a # old[k].account_type
             /\ Holding(old, old[k].symbol, a) # {}
             /\ UpdatePosition(1, k, sh, c, Some(a), nt, "ok")) =>
                /\ lcall'.ret \notin SuccessRets
                /\ positions' = positions]_vars

\* C8 as claimed: a call with a non-positive share count or cost basis changes
\* nothing, so every stored position has shares >= 0 and cost_basis > 0.
C8_Original ==
    \A m \in DOMAIN positions :
        \A k \in DOMAIN positions[m] :
            positions[m][k].shares >= 0 /\ positions[m][k].cost_basis > 0

C10_Original ==
    [][(lcall'.n = lcall.n + 1 /\ lcall'.ret \in SuccessRets) =>
        \A j \in DOMAIN store.data \ {lcall'.key, lcall'.new_key} :
            /\ j \in DOMAIN store'.data
            /\ store'.data[j] = store.data[j]]_vars


(***************************************************************************)
(* The read-only views of the ledger (core/position_manager.py):           *)
(* get_eligible_positions, get_covered_call_capacity and                   *)
(* calculate_total_value.  A dict is iterated in insertion order, which    *)
(* the model does not keep; the views are folded over the keys in an       *)
(* arbitrary order and only what does not depend on the order is kept: of  *)
(* a combined position its symbol, its summed shares, its account_type and *)
(* the set of its position_keys (the fields copied from the first position *)
(* of the symbol are left out).                                            *)
(***************************************************************************)

MIN_SHARES == 100          \* get_eligible_positions(min_shares = 100)

\* The filter of get_eligible_positions with > for >=.
IsEligibleStrict(shares, min_shares) == shares > min_shares

\* combined_pos['shares'] >= min_shares
IsEligible(shares, min_shares) == shares >= min_shares

\* The grouping loop of get_eligible_positions over the keys still to visit:
\* symbol_positions after it.
RECURSIVE SymbolPositions(_, _, _)
SymbolPositions(l, keys, symbol_positions) ==
    IF keys = {} THEN symbol_positions
    ELSE LET key == CHOOSE k \in keys : TRUE
             pos == l[key]
             symbol == pos.symbol
             next ==
                 IF symbol \notin DOMAIN symbol_positions
                 THEN DictSet(symbol_positions, symbol,
                              [symbol |-> symbol, shares |-> pos.shares,
                               account_type |-> pos.account_type,
                               position_keys |-> {key}])
                 ELSE LET c == symbol_positions[symbol]
                      IN  DictSet(symbol_positions, symbol,
                              [symbol |-> symbol,
                               shares |-> c.shares + pos.shares,
                               account_type |->
                                   IF pos.account_type # c.account_type
                                   THEN "multiple" ELSE c.account_type,
                               position_keys |-> c.position_keys \cup {key}])
         IN  SymbolPositions(l, keys \ {key}, next)

\* get_eligible_positions(min_shares) on ledger l.
GetEligiblePositions(l, min_shares) ==
    LET symbol_positions == SymbolPositions(l, DOMAIN l, <<>>)
        kept == {symbol \in DOMAIN symbol_positions :
                    IsEligible(symbol_positions[symbol].shares, min_shares)}
    IN  [symbol \in kept |-> symbol_positions[symbol]]

\* pos['shares'] // 100
Contracts(shares) == shares \div 100

\* get_covered_call_capacity() on ledger l: the loop runs over the items of
\* self.positions, whose keys are the position keys.
GetCoveredCallCapacity(l) ==
    LET kept == {symbol \in DOMAIN l : Contracts(l[symbol].shares) > 0}
    IN  [symbol \in kept |-> Contracts(l[symbol].shares)]

\* The loop of calculate_total_value over the keys still to visit, with the
\* totals so far.  An amount is shares x cents.
RECURSIVE TotalValueLoop(_, _, _, _)
TotalValueLoop(l, keys, current_prices, acc) ==
    IF keys = {} THEN acc
    ELSE LET symbol == CHOOSE k \in keys : TRUE
             pos == l[symbol]
             cost == pos.shares * pos.cost_basis
             priced == symbol \in DOMAIN current_prices
             value == IF priced THEN pos.shares * current_prices[symbol] ELSE 0
         IN  TotalValueLoop(l, keys \ {symbol}, current_prices,
                 [positions |-> IF priced THEN acc.positions \cup {symbol}
                                ELSE acc.positions,
                  total_cost |-> acc.total_cost + cost,
                  total_value |-> acc.total_value + value])

\* calculate_total_value(current_prices) on ledger l: the keys of its
\* 'positions', total_cost, total_value and total_gain_loss.
CalculateTotalValue(l, current_prices) ==
    LET r == TotalValueLoop(l, DOMAIN l, current_prices,
                            [positions |-> {}, total_cost |-> 0, total_value |-> 0])
    IN  [positions |-> r.positions, total_cost |-> r.total_cost,
         total_value |-> r.total_value,
         total_gain_loss |-> r.total_value - r.total_cost]

\* The current_prices the dashboard builds from its market data: keyed by
\* symbol, in cents.
PriceMaps ==
    {<<>>, [s \in {"AAPL"} |-> 12000], [s \in {"AAPL", "MSFT"} |-> 12000]}

\* A query by manager 1; qcall keeps the ledger it was answered from.
GetEligiblePositionsCall ==
    /\ qcall' = [call |-> "get_eligible_positions", ledger |-> positions[1],
                 current_prices |-> <<>>,
                 result |-> GetEligiblePositions(positions[1], MIN_SHARES)]
    /\ UNCHANGED <<monitorVars, decisionVars, ledgerVars, scannerVars, growthVars, whaleVars, flowLogVars, trackerVars>>

GetCoveredCallCapacityCall ==
    /\ qcall' = [call |-> "get_covered_call_capacity", ledger |-> positions[1],
                 current_prices |-> <<>>,
                 result |-> GetCoveredCallCapacity(positions[1])]
    /\ UNCHANGED <<monitorVars, decisionVars, ledgerVars, scannerVars, growthVars, whaleVars, flowLogVars, trackerVars>>

CalculateTotalValueCall(current_prices) ==
    /\ qcall' = [call |-> "calculate_total_value", ledger |-> positions[1],
                 current_prices |-> current_prices,
                 result |-> CalculateTotalValue(positions[1], current_prices)]
    /\ UNCHANGED <<monitorVars, decisionVars, ledgerVars, scannerVars, growthVars, whaleVars, flowLogVars, trackerVars>>

\* One manager driven by the dashboard's forms, and the dashboard's queries.
NextQueries ==
    \/ NextLedgerOf({1}, {"AAPL", "MSFT"}, ValidShares, {10504}, {"ok"})
    \/ GetEligiblePositionsCall
    \/ GetCoveredCallCapacityCall
    \/ \E current_prices \in PriceMaps : CalculateTotalValueCall(current_prices)

SpecQueries == InitLedger /\ [][NextQueries]_vars

\* The symbols a ledger holds, and its keys for one symbol.
SymbolsOf(l) == {l[k].symbol : k \in DOMAIN l}
KeysOf(l, symbol) == {k \in DOMAIN l : l[k].symbol = symbol}

EligibleAsked == qcall.call = "get_eligible_positions"
CapacityAsked == qcall.call = "get_covered_call_capacity"
ValueAsked    == qcall.call = "calculate_total_value"

\* C11 as stated: no position holding fewer than 100 shares is part of an
\* entry of get_eligible_positions(100), neither as the entry nor among its
\* position_keys.
C11_Original ==
    EligibleAsked =>
        \A k \in DOMAIN qcall.ledger :
            qcall.ledger[k].shares < MIN_SHARES =>
                \A s \in DOMAIN qcall.result : k \notin qcall.result[s].position_keys

\* C11: get_eligible_positions(100) has one entry per symbol whose shares,
\* summed over all its accounts, are at least 100; the entry carries that sum
\* and lists every position of the symbol among its position_keys, also the
\* positions that hold fewer than 100 shares themselves; a symbol whose
\* combined shares are below 100 has no entry.
C11_EligibleByCombinedShares ==
    EligibleAsked =>
        /\ DOMAIN qcall.result =
               {s \in SymbolsOf(qcall.ledger) : TotalShares(qcall.ledger, s) >= MIN_SHARES}
        /\ \A s \in DOMAIN qcall.result :
               /\ qcall.result[s].shares = TotalShares(qcall.ledger, s)
               /\ qcall.result[s].position_keys = KeysOf(qcall.ledger, s)

\* A 50-share position is listed in an entry whose combined shares reach 100,
\* next to a symbol with exactly 100 shares.
C11_Witness ==
    /\ EligibleAsked
    /\ \E s \in DOMAIN qcall.result :
           \E k \in qcall.result[s].position_keys : qcall.ledger[k].shares < MIN_SHARES
    /\ \E s \in DOMAIN qcall.result : qcall.result[s].shares = MIN_SHARES

\* C12 as stated: get_covered_call_capacity() is keyed by symbol; a symbol is
\* in it exactly when its shares summed over all accounts are at least 100,
\* and its entry is that total // 100.
C12_Original ==
    CapacityAsked =>
        /\ DOMAIN qcall.result =
               {s \in SymbolsOf(qcall.ledger) : TotalShares(qcall.ledger, s) \div 100 >= 1}
        /\ \A s \in DOMAIN qcall.result :
               s \in SymbolsOf(qcall.ledger)
                   => qcall.result[s] = TotalShares(qcall.ledger, s) \div 100

\* shares x cost_basis summed over the positions of a ledger, and shares x
\* price summed over its positions whose symbol has a price.
RECURSIVE SumCost(_, _)
SumCost(l, keys) ==
    IF keys = {} THEN 0
    ELSE LET k == CHOOSE j \in keys : TRUE
         IN  l[k].shares * l[k].cost_basis + SumCost(l, keys \ {k})

RECURSIVE SumPriced(_, _, _)
SumPriced(l, keys, prices) ==
    IF keys = {} THEN 0
    ELSE LET k == CHOOSE j \in keys : TRUE
         IN  (IF l[k].symbol \in DOMAIN prices
              THEN l[k].shares * prices[l[k].symbol] ELSE 0)
             + SumPriced(l, keys \ {k}, prices)

\* C13 as stated: calculate_total_value(current_prices) puts shares x
\* cost_basis of every position into total_cost and shares x price into
\* total_value for exactly the positions whose symbol has a price.
C13_Original ==
    ValueAsked =>
        /\ qcall.result.total_cost = SumCost(qcall.ledger, DOMAIN qcall.ledger)
        /\ qcall.result.total_value =
               SumPriced(qcall.ledger, DOMAIN qcall.ledger, qcall.current_prices)

(***************************************************************************)
(* The growth analyzer (core/growth_analyzer_enhanced.py).  A market-data  *)
(* dict is a record whose fields are optional (None: the key is absent).   *)
(* Its numbers are integers: percentages in whole points, market_cap in    *)
(* millions of dollars, beta and analyst_rating in tenths.  The unrounded  *)
(* total_score is held in thousandths of a point, in which                 *)
(* base_score * 0.3 + weighted_score * 0.7 is exact.                       *)
(***************************************************************************)

AGGRESSIVE_THRESHOLD   == 25
MODERATE_THRESHOLD     == 50
CONSERVATIVE_THRESHOLD == 75

\* known_growth_stocks and known_value_stocks, the entries the model uses.
known_growth_stocks == [s \in {"PLTR", "AMD", "ROKU"} |->
                           CASE s = "PLTR" -> 85 [] s = "AMD" -> 75 [] OTHER -> 65]
known_value_stocks  == [s \in {"T", "JPM"} |-> IF s = "T" THEN 15 ELSE 30]

\* str.upper() on a ticker.
UpperSymbol(s) == IF s = "amd" THEN "AMD" ELSE s

Clamp(lo, x, hi) == Max(lo, Min(hi, x))

\* round(): n/d to the nearest integer, a tie to the even one (d > 0).
RoundHalfEven(n, d) ==
    LET q == n \div d
        r == n % d
    IN  IF 2 * r < d THEN q
        ELSE IF 2 * r > d THEN q + 1
        ELSE IF q % 2 = 0 THEN q ELSE q + 1

CalculateVarianceAdjustment(data) ==
    LET a1 == IF data.price_change_1m # None
              THEN LET c == data.price_change_1m[1]
                   IN  IF c > 30 THEN 10
                       ELSE IF c > 15 THEN 5
                       ELSE IF c < -20 THEN -10
                       ELSE IF c < -10 THEN -5
                       ELSE 0
              ELSE 0
        a2 == IF data.volatility_30d # None
              THEN LET v == data.volatility_30d[1]
                   IN  IF v > 60 THEN 5 ELSE IF v < 20 THEN -5 ELSE 0
              ELSE 0
    IN  a1 + a2

\* The price-performance step of _calculate_momentum_score with the reward
\* for a gain of 0 to 10 points taken away instead of given.
PricePerformanceDip(change_1m) ==
    IF change_1m > 30 THEN 40
    ELSE IF change_1m > 20 THEN 30
    ELSE IF change_1m > 10 THEN 20
    ELSE IF change_1m > 0 THEN -10
    ELSE Max(-20, change_1m)

\* The price-performance step of _calculate_momentum_score.
PricePerformance(change_1m) ==
    IF change_1m > 30 THEN 40
    ELSE IF change_1m > 20 THEN 30
    ELSE IF change_1m > 10 THEN 20
    ELSE IF change_1m > 0 THEN 10
    ELSE Max(-20, change_1m)

CalculateMomentumScore(data) ==
    LET s1 == IF data.price_change_1m # None
              THEN PricePerformance(data.price_change_1m[1]) ELSE 0
        s2 == IF data.price # None /\ data.ma_50 # None /\ data.ma_200 # None
              THEN LET price == data.price[1]
                       ma50 == data.ma_50[1]
                       ma200 == data.ma_200[1]
                   IN  IF price > ma50 /\ ma50 > ma200 THEN 30
                       ELSE IF price > ma50 THEN 20
                       ELSE IF price < ma50 /\ ma50 < ma200 THEN -20
                       ELSE -10
              ELSE 0
        s3 == IF data.rsi # None
              THEN LET rsi == data.rsi[1]
                   IN  IF 60 < rsi /\ rsi < 80 THEN 20
                       ELSE IF rsi > 80 THEN 10
                       ELSE IF rsi < 30 THEN -10
                       ELSE 0
              ELSE 0
    IN  Clamp(0, s1 + s2 + s3 + 50, 100)

CalculateVolatilityScore(data) ==
    LET s1 == IF data.volatility_30d # None
              THEN LET vol == data.volatility_30d[1]
                   IN  IF vol > 80 THEN 90
                       ELSE IF vol > 60 THEN 75
                       ELSE IF vol > 40 THEN 60
                       ELSE IF vol > 25 THEN 40
                       ELSE 20
              ELSE 0
        s2 == IF data.beta # None
              THEN IF data.beta[1] > 15 THEN 10
                   ELSE IF data.beta[1] < 8 THEN -10 ELSE 0
              ELSE 0
    IN  Clamp(0, s1 + s2, 100)

CalculateFundamentalsScore(data) ==
    LET s1 == IF data.revenue_growth # None
              THEN LET growth == data.revenue_growth[1]
                   IN  IF growth > 50 THEN 30
                       ELSE IF growth > 25 THEN 20
                       ELSE IF growth > 10 THEN 10
                       ELSE IF growth < 0 THEN -20
                       ELSE 0
              ELSE 0
        s2 == IF data.pe_ratio # None
              THEN IF data.pe_ratio[1] > 50 THEN 10
                   ELSE IF data.pe_ratio[1] < 15 THEN -10 ELSE 0
              ELSE 0
        s3 == IF data.analyst_rating # None
              THEN IF data.analyst_rating[1] >= 45 THEN 15
                   ELSE IF data.analyst_rating[1] <= 25 THEN -15 ELSE 0
              ELSE 0
    IN  Clamp(0, 50 + s1 + s2 + s3, 100)

\* position = (price - low_52) / (high_52 - low_52) is compared with 0.8,
\* 0.6 and 0.3 by cross-multiplication.
CalculateTechnicalScore(data) ==
    LET s1 == IF data.price # None /\ data.high_52 # None /\ data.low_52 # None
              THEN LET num == data.price[1] - data.low_52[1]
                       den == data.high_52[1] - data.low_52[1]
                   IN  IF den > 0
                       THEN IF 10 * num > 8 * den THEN 20
                            ELSE IF 10 * num > 6 * den THEN 10
                            ELSE IF 10 * num < 3 * den THEN -10
                            ELSE 0
                       ELSE 0
              ELSE 0
    IN  Clamp(0, 50 + s1, 100)

\* _get_strategy_recommendation(score), the score in thousandths: the
\* 'strategy' of the dict it returns.
GetStrategyRecommendation(score) ==
    IF score < AGGRESSIVE_THRESHOLD * 1000 THEN "AGGRESSIVE"
    ELSE IF score < MODERATE_THRESHOLD * 1000 THEN "MODERATE"
    ELSE IF score < CONSERVATIVE_THRESHOLD * 1000 THEN "CONSERVATIVE"
    ELSE "PROTECT"

\* The unrounded total_score of calculate_growth_score, in thousandths.
TotalScore(symbol, data) ==
    IF symbol \in DOMAIN known_growth_stocks
    THEN 1000 * Clamp(0, known_growth_stocks[symbol] + CalculateVarianceAdjustment(data), 100)
    ELSE IF symbol \in DOMAIN known_value_stocks
    THEN 1000 * Clamp(0, known_value_stocks[symbol] + CalculateVarianceAdjustment(data), 100)
    ELSE LET market_cap == Get(data.market_cap, 0)
             base_score == IF market_cap > 0
                           THEN IF market_cap < 2000 THEN 60
                                ELSE IF market_cap < 10000 THEN 50
                                ELSE 30
                           ELSE 50
         IN  300 * base_score
             + 210 * CalculateMomentumScore(data)
             + 175 * CalculateVolatilityScore(data)
             + 175 * CalculateFundamentalsScore(data)
             + 140 * CalculateTechnicalScore(data)

GetScoreConfidence(symbol, market_data) ==
    IF symbol \in DOMAIN known_growth_stocks \/ symbol \in DOMAIN known_value_stocks
    THEN "HIGH"
    ELSE IF /\ market_data.price_change_1m # None
            /\ market_data.volatility_30d # None
            /\ market_data.revenue_growth # None
    THEN "MEDIUM"
    ELSE "LOW"

\* calculate_growth_score(symbol, market_data): total_score is rounded, the
\* strategy and protect_position are taken from the unrounded score.
CalculateGrowthScore(symbol0, market_data) ==
    LET symbol == UpperSymbol(symbol0)
        total_score == TotalScore(symbol, market_data)
    IN  [symbol |-> symbol,
         total_score |-> RoundHalfEven(total_score, 1000),
         strategy |-> GetStrategyRecommendation(total_score),
         protect_position |-> total_score > CONSERVATIVE_THRESHOLD * 1000,
         score_confidence |-> GetScoreConfidence(symbol, market_data)]

\* The market snapshots handed to the analyzer.
PriceChanges == {-25, -15, -5, 0, 5, 12, 16, 25, 31, 35}
Trends ==
    {[price |-> None, ma_50 |-> None, ma_200 |-> None],
     [price |-> Some(100), ma_50 |-> Some(90), ma_200 |-> Some(80)],
     [price |-> Some(100), ma_50 |-> Some(110), ma_200 |-> Some(120)]}
Ranges ==
    {[high_52 |-> None, low_52 |-> None],
     [high_52 |-> Some(105), low_52 |-> Some(50)]}

MarketSnapshot(chg, vol, cap, trend, rsi, beta, rev, pe, rating, range) ==
    [price_change_1m |-> chg, volatility_30d |-> vol, market_cap |-> cap,
     price |-> trend.price, ma_50 |-> trend.ma_50, ma_200 |-> trend.ma_200,
     rsi |-> rsi, beta |-> beta, revenue_growth |-> rev, pe_ratio |-> pe,
     analyst_rating |-> rating, high_52 |-> range.high_52, low_52 |-> range.low_52]

\* Snapshots for a symbol of the override tables: only price_change_1m and
\* volatility_30d are read.
KnownSnapshots ==
    {MarketSnapshot(chg, vol, None, CHOOSE t \in Trends : t.price = None, None,
                    None, None, None, None, CHOOSE r \in Ranges : r.high_52 = None) :
        chg \in Optional(PriceChanges), vol \in Optional({15, 50, 90})}

ComputedSnapshots ==
    {MarketSnapshot(chg, vol, cap, trend, rsi, beta, rev, pe, rating, range) :
        chg \in Optional(PriceChanges), vol \in Optional({15, 50, 90}),
        cap \in Optional({1000, 5000, 50000}), trend \in Trends,
        rsi \in Optional({25, 70}), beta \in Optional({20}),
        rev \in Optional({-5, 30}), pe \in Optional({60}),
        rating \in Optional({45}), range \in Ranges}

GrowthSymbols == {"PLTR", "AMD", "amd", "ROKU", "T", "JPM"}
ComputedSymbols == {"XYZ"}

GrowthCalls ==
    {[call |-> "calculate_growth_score", symbol |-> sym, market_data |-> d,
      done |-> FALSE, result |-> None] : sym \in GrowthSymbols, d \in KnownSnapshots}
    \cup
    {[call |-> "calculate_growth_score", symbol |-> sym, market_data |-> d,
      done |-> FALSE, result |-> None] : sym \in ComputedSymbols, d \in ComputedSnapshots}

\* One call of calculate_growth_score; its arguments are drawn when the run
\* starts.
CalculateGrowthScoreCall ==
    /\ gcall.call = "calculate_growth_score" /\ ~gcall.done
    /\ gcall' = [gcall EXCEPT !.done = TRUE,
                     !.result = Some(CalculateGrowthScore(gcall.symbol, gcall.market_data))]
    /\ UNCHANGED <<monitorVars, decisionVars, ledgerVars, queryVars, scannerVars, whaleVars, flowLogVars, trackerVars>>

InitGrowth ==
    /\ gcall \in GrowthCalls
    /\ MonitorIdle
    /\ DecisionsIdle
    /\ LedgerIdle
    /\ QueriesIdle
    /\ FlowLogIdle
    /\ TrackerIdle
    /\ ScannerIdle
    /\ WhaleIdle

NextGrowth == CalculateGrowthScoreCall

SpecGrowth == InitGrowth /\ [][NextGrowth]_vars

Scored == gcall.call = "calculate_growth_score" /\ gcall.done

\* The band of a reported (rounded) score.
BandOf(total_score) ==
    IF total_score < 25 THEN "AGGRESSIVE"
    ELSE IF total_score < 50 THEN "MODERATE"
    ELSE IF total_score < 75 THEN "CONSERVATIVE"
    ELSE "PROTECT"

\* C18 as stated: in every GrowthAssessment the strategy is the band of the
\* reported total_score: below 25 AGGRESSIVE, 25 to 49 MODERATE, 50 to 74
\* CONSERVATIVE, 75 and above PROTECT.
C18_Original ==
    Scored => gcall.result[1].strategy = BandOf(gcall.result[1].total_score)

\* C19: in the computed-mode path, a snapshot that differs from the one scored
\* only by a larger price_change_1m never gets a lower total_score.
C19_MonotoneInPriceChange ==
    (Scored /\ gcall.result[1].score_confidence # "HIGH"
            /\ gcall.market_data.price_change_1m # None) =>
        \A c \in PriceChanges :
            c >= gcall.market_data.price_change_1m[1] =>
                CalculateGrowthScore(gcall.symbol,
                    [gcall.market_data EXCEPT !.price_change_1m = Some(c)]).total_score
                >= gcall.result[1].total_score

\* A computed-mode score that a larger price_change_1m raises: the month's
\* change is negative and the momentum score is not clipped.
C19_Witness ==
    /\ Scored /\ gcall.result[1].score_confidence # "HIGH"
    /\ gcall.market_data.price_change_1m = Some(-5)
    /\ CalculateGrowthScore(gcall.symbol,
           [gcall.market_data EXCEPT !.price_change_1m = Some(5)]).total_score
       > gcall.result[1].total_score

(***************************************************************************)
(* The options scanner (core/options_scanner.py).  The stock price and the *)
(* strikes are whole dollars, bid and ask are cents, delta is in           *)
(* thousandths, implied_volatility in hundredths, win_probability in       *)
(* tenths of a percent.  A return is the exact fraction <<num, den>>.  An  *)
(* option_data dict is a record of optional fields.  Of an Opportunity the *)
(* fields that are copies of the position or of theta / iv_percentile, and *)
(* earnings_before_exp, are left out.  An option chain is the sequence of  *)
(* its contracts [dte, strike, option_data] in iteration order, dte being  *)
(* (exp_date - now).days.                                                  *)
(***************************************************************************)

MIN_IV_RANK       == 30
MIN_VOLUME        == 10
MAX_SPREAD_PCT    == 15        \* 0.15, in hundredths
MIN_OPEN_INTEREST == 10
MIN_PREMIUM       == 10        \* 0.10 dollars, in cents
TARGET_DTE_MIN    == 25
TARGET_DTE_MAX    == 45
MIN_MONTHLY_YIELD == 2         \* 0.02, in hundredths
SCORE_CEILING     == 85        \* find_opportunities: total_score > 85 is skipped
MIN_CONFIDENCE    == 50        \* opportunity['confidence_score'] > 50
TOP_N             == 20        \* opportunities[:20]

\* _get_strike_parameters with PROTECT given the CONSERVATIVE band.
GetStrikeParametersOpen(strategy, current_price) ==
    CASE strategy = "AGGRESSIVE" ->
             [inf |-> FALSE, min_strike |-> 100 * current_price,
              max_strike |-> 103 * current_price]
      [] strategy = "MODERATE" ->
             [inf |-> FALSE, min_strike |-> 102 * current_price,
              max_strike |-> 107 * current_price]
      [] OTHER ->
             [inf |-> FALSE, min_strike |-> 105 * current_price,
              max_strike |-> 112 * current_price]

\* _get_strike_parameters(strategy, current_price): the bounds in hundredths
\* of a dollar; inf: both bounds are float('inf').
GetStrikeParameters(strategy, current_price) ==
    CASE strategy = "AGGRESSIVE" ->
             [inf |-> FALSE, min_strike |-> 100 * current_price,
              max_strike |-> 103 * current_price]
      [] strategy = "MODERATE" ->
             [inf |-> FALSE, min_strike |-> 102 * current_price,
              max_strike |-> 107 * current_price]
      [] strategy = "CONSERVATIVE" ->
             [inf |-> FALSE, min_strike |-> 105 * current_price,
              max_strike |-> 112 * current_price]
      [] OTHER -> [inf |-> TRUE, min_strike |-> 0, max_strike |-> 0]

\* The strike test of _analyze_symbol_opportunities: a finite strike is below
\* float('inf').
StrikeInRange(strike_price, strike_params) ==
    /\ ~strike_params.inf
    /\ 100 * strike_price >= strike_params.min_strike
    /\ 100 * strike_price <= strike_params.max_strike

\* _validate_option(option_data)
ValidateOption(option_data) ==
    LET bid == Get(option_data.bid, 0)
        ask == Get(option_data.ask, 0)
    IN  /\ ~(bid <= 0 \/ ask <= 0)
        /\ ~(100 * (ask - bid) > MAX_SPREAD_PCT * ask)
        /\ ~(Get(option_data.volume, 0) < MIN_VOLUME)
        /\ ~(Get(option_data.open_interest, 0) < MIN_OPEN_INTEREST)
        /\ ~(bid + ask < 2 * MIN_PREMIUM)
        /\ ~(Get(option_data.iv_rank, 0) < MIN_IV_RANK)

\* round(prob * 100, 1) of the Black-Scholes approximation
\* 0.5 * (1 + erf(ln(strike / current_price) / (iv * sqrt(dte / 365)) / sqrt 2)),
\* tabulated for current_price 100 and iv 0.30, the values the model uses.
NormalCdfPct(strike, dte) ==
    LET column == CASE strike = 100 -> 1 [] strike = 103 -> 2 [] strike = 105 -> 3
                    [] strike = 107 -> 4 [] strike = 112 -> 5 [] strike = 113 -> 6
    IN  CASE dte = 25 -> <<500, 647, 733, 806, 926, 940>>[column]
          [] dte = 30 -> <<500, 634, 715, 784, 906, 922>>[column]
          [] dte = 45 -> <<500, 610, 678, 740, 859, 877>>[column]

Abs(x) == IF x < 0 THEN 0 - x ELSE x

\* _calculate_win_probability(current_price, strike, dte, option_data)
CalculateWinProbability(current_price, strike, dte, option_data) ==
    IF option_data.delta # None
    THEN 1000 - Abs(option_data.delta[1])
    ELSE IF option_data.implied_volatility # None /\ option_data.implied_volatility[1] > 0
    THEN NormalCdfPct(strike, dte)
    ELSE LET otm == strike - current_price
         IN  IF 100 * otm > 10 * current_price THEN 850
             ELSE IF 100 * otm > 5 * current_price THEN 750
             ELSE IF 100 * otm > 2 * current_price THEN 650
             ELSE 500

\* _calculate_confidence_score(option_data, win_probability, monthly_yield,
\* growth_score), monthly_yield being the fraction my: 200 * my[2] times the
\* sum of the five components, rounded to an integer.
CalculateConfidenceScore(option_data, win_probability, my, growth_score) ==
    LET iv_rank == Get(option_data.iv_rank, 0)
        volume == Get(option_data.volume, 0)
        oi == Get(option_data.open_interest, 0)
        fixed == 25 * Min(3 * iv_rank, 200)
                 + 5 * win_probability
                 + 3 * Min(volume + oi, 1000)
                 + 30 * Max(0, 100 - growth_score)
    IN  RoundHalfEven(my[2] * fixed + 200 * Min(4 * my[1], 20 * my[2]), 200 * my[2])

\* "static_return_monthly < self.MIN_MONTHLY_YIELD" with the test left out.
YieldTooLowNever(my) == FALSE

\* static_return_monthly < self.MIN_MONTHLY_YIELD
YieldTooLow(my) == 100 * my[1] < MIN_MONTHLY_YIELD * my[2]

\* _calculate_opportunity_metrics: None, or the Opportunity.
CalculateOpportunityMetrics(symbol, position, growth_analysis, market_data, strike, dte, option_data) ==
    LET current_price == market_data.price[1]
        bid == option_data.bid[1]
        ask == option_data.ask[1]
        static_return_monthly == <<3 * (bid + ask), 20 * current_price * dte>>
        if_called_return == <<200 * (strike - current_price) + bid + ask,
                              200 * current_price>>
        win_probability == CalculateWinProbability(current_price, strike, dte, option_data)
    IN  IF YieldTooLow(static_return_monthly) THEN None
        ELSE Some([symbol |-> symbol,
                   current_price |-> current_price,
                   strike |-> strike,
                   days_to_exp |-> dte,
                   strategy |-> growth_analysis.strategy,
                   growth_score |-> growth_analysis.total_score,
                   bid |-> bid,
                   ask |-> ask,
                   delta |-> Get(option_data.delta, 0),
                   iv_rank |-> Get(option_data.iv_rank, 0),
                   implied_volatility |-> Get(option_data.implied_volatility, 0),
                   volume |-> Get(option_data.volume, 0),
                   open_interest |-> Get(option_data.open_interest, 0),
                   static_return_monthly |-> static_return_monthly,
                   if_called_return |-> if_called_return,
                   win_probability |-> win_probability,
                   confidence_score |->
                       CalculateConfidenceScore(option_data, win_probability,
                           static_return_monthly, growth_analysis.total_score),
                   max_contracts |-> position.shares \div 100,
                   shares_owned |-> position.shares])

\* _analyze_symbol_opportunities: the opportunities of the contracts
\* options_chain[i..], in chain order.
RECURSIVE AnalyzeChain(_, _, _, _, _, _)
AnalyzeChain(symbol, position, growth_analysis, market_data, options_chain, i) ==
    IF i > Len(options_chain) THEN <<>>
    ELSE LET c == options_chain[i]
             rest == AnalyzeChain(symbol, position, growth_analysis, market_data,
                                  options_chain, i + 1)
             strike_params == GetStrikeParameters(growth_analysis.strategy,
                                                  market_data.price[1])
         IN  IF c.dte < TARGET_DTE_MIN \/ c.dte > TARGET_DTE_MAX THEN rest
             ELSE IF ~StrikeInRange(c.strike, strike_params) THEN rest
             ELSE IF ~ValidateOption(c.option_data) THEN rest
             ELSE LET opportunity ==
                          CalculateOpportunityMetrics(symbol, position, growth_analysis,
                              market_data, c.strike, c.dte, c.option_data)
                  IN  IF opportunity # None
                         /\ opportunity[1].confidence_score > MIN_CONFIDENCE
                      THEN <<opportunity[1]>> \o rest
                      ELSE rest

AnalyzeSymbolOpportunities(symbol, position, growth_analysis, market_data, options_chain) ==
    IF Get(market_data.price, 0) = 0 THEN <<>>
    ELSE AnalyzeChain(symbol, position, growth_analysis, market_data, options_chain, 1)

\* list.sort(key = confidence_score, reverse = True): stable, highest first.
RECURSIVE SortByConfidence(_)
SortByConfidence(opps) ==
    IF Len(opps) <= 1 THEN opps
    ELSE LET best == CHOOSE i \in 1..Len(opps) :
                 /\ \A j \in 1..Len(opps) :
                        opps[j].confidence_score <= opps[i].confidence_score
                 /\ \A j \in 1..(i - 1) :
                        opps[j].confidence_score < opps[i].confidence_score
             others == [j \in 1..(Len(opps) - 1) |->
                           IF j < best THEN opps[j] ELSE opps[j + 1]]
         IN  <<opps[best]>> \o SortByConfidence(others)

\* The loop of find_opportunities over the eligible symbols still to visit.
RECURSIVE ScanSymbols(_, _, _, _)
ScanSymbols(eligible_positions, symbols, market_data, options_data) ==
    IF symbols = {} THEN <<>>
    ELSE LET symbol == CHOOSE x \in symbols : TRUE
             rest == ScanSymbols(eligible_positions, symbols \ {symbol},
                                 market_data, options_data)
         IN  IF symbol \notin DOMAIN market_data THEN rest
             ELSE LET growth_analysis == CalculateGrowthScore(symbol, market_data[symbol])
                  IN  IF growth_analysis.total_score > SCORE_CEILING THEN rest
                      ELSE IF symbol \notin DOMAIN options_data
                              \/ options_data[symbol] = <<>> THEN rest
                      ELSE AnalyzeSymbolOpportunities(symbol, eligible_positions[symbol],
                               growth_analysis, market_data[symbol],
                               options_data[symbol]) \o rest

\* find_opportunities(market_data, options_data) over the positions of
\* ledger l.
FindOpportunities(l, market_data, options_data) ==
    LET eligible_positions == GetEligiblePositions(l, MIN_SHARES)
        opportunities == SortByConfidence(
            ScanSymbols(eligible_positions, DOMAIN eligible_positions,
                        market_data, options_data))
    IN  SubSeq(opportunities, 1, Min(TOP_N, Len(opportunities)))

\* The inputs of a scan: one held symbol, its market snapshot and a chain of
\* one contract, or of three.
ScanSymbolSet == {"T", "JPM", "ROKU", "AMD", "PLTR", "XYZ"}
ScanDtes      == {24, 25, 45, 46}
ScanStrikes   == {100, 103, 105, 107, 112, 113}
BidAsks       == {<<100, 105>>, <<300, 310>>, <<250, 310>>}

OptionDatas ==
    {[bid |-> Some(ba[1]), ask |-> Some(ba[2]), volume |-> Some(v), open_interest |-> oi,
      iv_rank |-> ivr, delta |-> dl, implied_volatility |-> iv] :
        ba \in BidAsks, v \in {5, 500}, oi \in Optional({500}),
        ivr \in Optional({20, 30, 70}), dl \in Optional({0, 300}),
        iv \in Optional({30})}

ScanSnapshot(price, chg) ==
    MarketSnapshot(chg, None, None,
                   [price |-> price, ma_50 |-> None, ma_200 |-> None],
                   None, None, None, None, None,
                   [high_52 |-> None, low_52 |-> None])

ScanLedger(symbol, shares) ==
    AddResult(EmptyLedger, symbol, shares, 10504, "taxable", "").ledger

ScanCall(symbol, shares, market_data, options_data) ==
    [call |-> "find_opportunities", symbol |-> symbol,
     ledger |-> ScanLedger(symbol, shares),
     market_data |-> market_data, options_data |-> options_data,
     done |-> FALSE, result |-> <<>>]

ScanCalls ==
    {ScanCall(sym, 200, [x \in {sym} |-> ScanSnapshot(Some(100), chg)],
              [x \in {sym} |-> <<[dte |-> dte, strike |-> k, option_data |-> od]>>]) :
        sym \in ScanSymbolSet, chg \in {None, Some(35)}, dte \in ScanDtes,
        k \in ScanStrikes, od \in OptionDatas}
    \cup
    {ScanCall("T", sh, md, ods) :
        sh \in {50, 200},
        md \in {<<>>, [x \in {"T"} |-> ScanSnapshot(None, None)],
                [x \in {"T"} |-> ScanSnapshot(Some(0), None)],
                [x \in {"T"} |-> ScanSnapshot(Some(100), None)]},
        ods \in {<<>>, [x \in {"T"} |-> <<>>]} \cup
                {[x \in {"T"} |->
                     <<[dte |-> 45, strike |-> 100, option_data |-> od],
                       [dte |-> 25, strike |-> 103, option_data |-> od],
                       [dte |-> 25, strike |-> 100, option_data |->
                           [od EXCEPT !.bid = Some(100), !.ask = Some(105)]]>>] :
                     od \in {o \in OptionDatas : o.bid = Some(300) /\ o.volume = Some(500)
                                                 /\ o.iv_rank = Some(70)}}}

\* One scan; its arguments are drawn when the run starts.
FindOpportunitiesCall ==
    /\ scall.call = "find_opportunities" /\ ~scall.done
    /\ scall' = [scall EXCEPT !.done = TRUE,
                     !.result = FindOpportunities(scall.ledger, scall.market_data,
                                                  scall.options_data)]
    /\ UNCHANGED <<monitorVars, decisionVars, ledgerVars, queryVars, growthVars, whaleVars, flowLogVars, trackerVars>>

InitScanner ==
    /\ scall \in ScanCalls
    /\ MonitorIdle
    /\ DecisionsIdle
    /\ LedgerIdle
    /\ QueriesIdle
    /\ FlowLogIdle
    /\ TrackerIdle
    /\ GrowthIdle
    /\ WhaleIdle

NextScanner == FindOpportunitiesCall

SpecScanner == InitScanner /\ [][NextScanner]_vars

Scanned == scall.call = "find_opportunities" /\ scall.done

\* The growth assessment the scan makes of its symbol.
ScanGrowth == CalculateGrowthScore(scall.symbol, scall.market_data[scall.symbol])

\* The contracts of the scanned chain.
ScanChain == scall.options_data[scall.symbol]

\* The scan with every contract's option_data replaced through f.
Rescan(f(_)) ==
    FindOpportunities(scall.ledger, scall.market_data,
        [x \in DOMAIN scall.options_data |->
            [i \in 1..Len(scall.options_data[x]) |->
                [scall.options_data[x][i] EXCEPT !.option_data = f(@)]]])

\* C14: every Opportunity returned by find_opportunities has
\* static_return_monthly >= 0.02 and confidence_score > 50.
C14_YieldAndConfidenceFloor ==
    Scanned =>
        \A i \in 1..Len(scall.result) :
            /\ 100 * scall.result[i].static_return_monthly[1]
                   >= MIN_MONTHLY_YIELD * scall.result[i].static_return_monthly[2]
            /\ scall.result[i].confidence_score > MIN_CONFIDENCE

\* A scan of three contracts that returns two opportunities and drops the
\* third, a valid contract, for its yield.
C14_Witness ==
    /\ Scanned
    /\ scall.symbol \in DOMAIN scall.options_data
    /\ Len(ScanChain) = 3
    /\ Len(scall.result) = 2
    /\ scall.result[1].confidence_score > scall.result[2].confidence_score
    /\ \E i \in 1..3 :
           /\ ValidateOption(ScanChain[i].option_data)
           /\ YieldTooLow(<<3 * (ScanChain[i].option_data.bid[1]
                                 + ScanChain[i].option_data.ask[1]),
                            20 * 100 * ScanChain[i].dte>>)

\* C15: find_opportunities never returns an Opportunity for a symbol whose
\* growth strategy is PROTECT, also when its score (75 to 85) passes the
\* scanner's ceiling.
C15_NoProtectOpportunity ==
    Scanned =>
        /\ \A i \in 1..Len(scall.result) : scall.result[i].strategy # "PROTECT"
        /\ (scall.symbol \in DOMAIN scall.market_data /\ ScanGrowth.strategy = "PROTECT")
               => scall.result = <<>>

\* A PROTECT symbol whose score passes the ceiling, scanned with a contract
\* that the CONSERVATIVE band would have taken: nothing is returned.
C15_Witness ==
    /\ Scanned
    /\ scall.symbol \in DOMAIN scall.market_data
    /\ ScanGrowth.strategy = "PROTECT"
    /\ ScanGrowth.total_score >= 75 /\ ScanGrowth.total_score <= SCORE_CEILING
    /\ scall.symbol \in DOMAIN scall.options_data
    /\ Len(ScanChain) = 1
    /\ ScanChain[1].dte = TARGET_DTE_MIN /\ ScanChain[1].strike = 107
    /\ ValidateOption(ScanChain[1].option_data)
    /\ ~YieldTooLow(<<3 * (ScanChain[1].option_data.bid[1] + ScanChain[1].option_data.ask[1]),
                      20 * 100 * ScanChain[1].dte>>)
    /\ scall.result = <<>>

\* Two Opportunities agree on every field but win_probability and
\* confidence_score.
SameOtherFields(o1, o2) ==
    [o1 EXCEPT !.win_probability = 0, !.confidence_score = 0]
        = [o2 EXCEPT !.win_probability = 0, !.confidence_score = 0]

\* C16 as stated: two Opportunities the scanner produces that agree on every
\* other field have the same win_probability and the same confidence_score
\* (here: the scan made, and the same scan of any other option data).
C16_Original ==
    (Scanned /\ scall.result # <<>>) =>
        \A od2 \in OptionDatas :
            LET ConstOd2(od) == od2
                other == Rescan(ConstOd2)
            IN  \A i \in 1..Len(scall.result), j \in 1..Len(other) :
                    SameOtherFields(scall.result[i], other[j]) =>
                        /\ scall.result[i].win_probability = other[j].win_probability
                        /\ scall.result[i].confidence_score = other[j].confidence_score

\* option_data with the documented default for a missing iv_rank.
WithDefaultIvRank(od) == IF od.iv_rank = None THEN [od EXCEPT !.iv_rank = Some(50)] ELSE od

\* C17 as stated: a contract whose iv_rank is absent is scanned as if its
\* iv_rank were 50: it passes the minimum-IV-rank gate and its
\* confidence_score is the one computed with iv_rank 50.
C17_Original ==
    Scanned =>
        LET expected == Rescan(WithDefaultIvRank)
        IN  /\ Len(scall.result) = Len(expected)
            /\ \A i \in 1..Len(expected) :
                   scall.result[i].confidence_score = expected[i].confidence_score

(***************************************************************************)
(* The whale tracker (core/whale_tracker.py).  premium_volume and the      *)
(* follow trade's costs are dollars (costs in half dollars, in which       *)
(* mid_price * 100 is exact), premium, bid, ask, strike and                *)
(* underlying_price are cents.  A raw flow record carries every key the    *)
(* code reads and an underlying_price above 0; its timestamp tells the     *)
(* records of one feed apart.  Quotients are compared by                   *)
(* cross-multiplication.  Of a follow trade the targets and the            *)
(* recommendation text are left out.                                       *)
(***************************************************************************)

MIN_PREMIUM_VOLUME == 50000
MIN_VOLUME_RATIO   == 20
MAX_OPTION_PRICE   == 100      \* 1.00 dollars, in cents
WHALE_MAX_DTE      == 45       \* self.MAX_DTE
MAX_WHALE_SPREAD   == 30       \* 0.30, in hundredths
FOLLOW_MIN_COST    == 200      \* dollars
FOLLOW_MAX_COST    == 2000     \* dollars

\* "flow['premium_volume'] < self.MIN_PREMIUM_VOLUME" with <= for <.
PremiumTooSmallStrict(premium_volume) == premium_volume <= MIN_PREMIUM_VOLUME

\* flow['premium_volume'] < self.MIN_PREMIUM_VOLUME
PremiumTooSmall(premium_volume) == premium_volume < MIN_PREMIUM_VOLUME

\* _is_whale_flow(flow)
IsWhaleFlow(flow) ==
    /\ ~PremiumTooSmall(flow.premium_volume)
    /\ ~(flow.premium > MAX_OPTION_PRICE)
    /\ ~(flow.avg_volume > 0 /\ flow.volume < MIN_VOLUME_RATIO * flow.avg_volume)
    /\ ~(flow.days_to_exp > WHALE_MAX_DTE)
    /\ flow.trade_type \in {"sweep", "block", "split_block"}
    /\ ~(flow.bid <= 0 \/ flow.ask <= 0)
    /\ ~(100 * (flow.ask - flow.bid) > MAX_WHALE_SPREAD * flow.ask)

\* _analyze_flow_pattern(flow)
AnalyzeFlowPattern(flow) ==
    LET sentiment ==
            IF flow.option_type = "call"
            THEN IF 100 * flow.strike > 110 * flow.underlying_price THEN "VERY_BULLISH"
                 ELSE IF flow.strike > flow.underlying_price THEN "BULLISH"
                 ELSE "STRONG_BULLISH"
            ELSE IF 100 * flow.strike < 90 * flow.underlying_price THEN "VERY_BEARISH"
                 ELSE "BEARISH"
        aggressiveness ==
            IF flow.days_to_exp <= 7 THEN "EXTREME"
            ELSE IF flow.days_to_exp <= 21 THEN "HIGH"
            ELSE "MODERATE"
        pattern ==
            IF flow.trade_type = "sweep" /\ flow.volume > 10000
            THEN <<"AGGRESSIVE_SWEEP", 85>>
            ELSE IF flow.trade_type = "block" /\ flow.premium_volume > 100000
            THEN <<"INSTITUTIONAL_BLOCK", 80>>
            ELSE IF 2 * flow.volume > Max(flow.open_interest, 1)
            THEN <<"POSITION_OPENING", 75>>
            ELSE <<"LARGE_TRADE", 70>>
        far == 100 * Abs(flow.strike - flow.underlying_price) > 20 * flow.underlying_price
    IN  [sentiment |-> sentiment, aggressiveness |-> aggressiveness,
         pattern |-> pattern[1],
         confidence |-> pattern[2] + (IF far THEN 10 ELSE 0)]

\* 'BEAR' in analysis['sentiment']
IsBearish(sentiment) == sentiment \in {"BEARISH", "VERY_BEARISH"}

\* _calculate_follow_trade(whale_flow, analysis): None, or the follow trade.
\* cost_per_contract and total_cost are in half dollars.
CalculateFollowTrade(whale_flow, analysis) ==
    IF analysis.confidence < 75 THEN None
    ELSE IF IsBearish(analysis.sentiment) THEN None
    ELSE
    LET whale_contracts == whale_flow.contracts
        whale_investment == whale_flow.total_premium
        scale_factor == IF whale_investment > 1000000 THEN 100000
                        ELSE IF whale_investment > 500000 THEN 50000
                        ELSE IF whale_investment > 100000 THEN 20000
                        ELSE 10000
        first == Max(1, Min(10, whale_contracts \div scale_factor))
        cost_per_contract == whale_flow.bid + whale_flow.ask
        first_cost == cost_per_contract * first
        suggested_contracts ==
            IF first_cost < 2 * FOLLOW_MIN_COST \/ first_cost > 2 * FOLLOW_MAX_COST
            THEN IF first_cost < 2 * FOLLOW_MIN_COST
                    /\ cost_per_contract < 2 * FOLLOW_MIN_COST
                 THEN Max(1, (2 * FOLLOW_MIN_COST) \div cost_per_contract)
                 ELSE IF first_cost > 2 * FOLLOW_MAX_COST
                 THEN Max(1, (2 * FOLLOW_MAX_COST) \div cost_per_contract)
                 ELSE first
            ELSE first
    IN  Some([suggested_contracts |-> suggested_contracts,
              cost_per_contract |-> cost_per_contract,
              total_cost |-> cost_per_contract * suggested_contracts,
              confidence_level |-> analysis.confidence])

\* _assess_risk_level(flow)
AssessRiskLevel(flow) ==
    IF flow.days_to_exp <= 7 THEN "EXTREME_RISK"
    ELSE IF flow.days_to_exp <= 21 THEN "HIGH_RISK"
    ELSE IF flow.days_to_exp <= 45 THEN "MODERATE_RISK"
    ELSE "LOWER_RISK"

\* The whale_flow dict detect_institutional_flows builds for a flagged flow.
WhaleFlowOf(flow) ==
    LET analysis == AnalyzeFlowPattern(flow)
        whale_flow == [timestamp |-> flow.timestamp,
                       flow_type |-> flow.trade_type,
                       option_type |-> flow.option_type,
                       strike |-> flow.strike,
                       underlying_price |-> flow.underlying_price,
                       days_to_exp |-> flow.days_to_exp,
                       contracts |-> flow.volume,
                       premium_per_contract |-> flow.premium,
                       total_premium |-> flow.premium_volume,
                       unusual_factor |-> <<flow.volume, Max(flow.avg_volume, 1)>>,
                       bid |-> flow.bid,
                       ask |-> flow.ask,
                       bid_ask_spread |-> flow.ask - flow.bid,
                       volume_oi_ratio |-> <<flow.volume, Max(flow.open_interest, 1)>>,
                       sentiment |-> analysis.sentiment,
                       aggressiveness |-> analysis.aggressiveness,
                       smart_money_confidence |-> analysis.confidence,
                       pattern_type |-> analysis.pattern,
                       risk_level |-> AssessRiskLevel(flow)]
        follow_trade == CalculateFollowTrade(whale_flow, analysis)
    IN  whale_flow @@ [follow_trade |-> follow_trade,
                       retail_accessible |-> follow_trade # None]

\* The loop of detect_institutional_flows over options_flow_data[i..].
RECURSIVE DetectLoop(_, _)
DetectLoop(options_flow_data, i) ==
    IF i > Len(options_flow_data) THEN <<>>
    ELSE IF IsWhaleFlow(options_flow_data[i])
    THEN <<WhaleFlowOf(options_flow_data[i])>> \o DetectLoop(options_flow_data, i + 1)
    ELSE DetectLoop(options_flow_data, i + 1)

\* list.sort(key = total_premium, reverse = True): stable, largest first.
RECURSIVE SortByPremium(_)
SortByPremium(whale_flows) ==
    IF Len(whale_flows) <= 1 THEN whale_flows
    ELSE LET best == CHOOSE i \in 1..Len(whale_flows) :
                 /\ \A j \in 1..Len(whale_flows) : whale_flows[j].total_premium <= whale_flows[i].total_premium
                 /\ \A j \in 1..(i - 1) : whale_flows[j].total_premium < whale_flows[i].total_premium
             others == [j \in 1..(Len(whale_flows) - 1) |->
                           IF j < best THEN whale_flows[j] ELSE whale_flows[j + 1]]
         IN  <<whale_flows[best]>> \o SortByPremium(others)

\* detect_institutional_flows(options_flow_data)
DetectInstitutionalFlows(options_flow_data) ==
    SortByPremium(DetectLoop(options_flow_data, 1))

\* The raw records of a feed.
RawFlows ==
    {[timestamp |-> 1, trade_type |-> tt, option_type |-> ot,
      strike |-> su[1], underlying_price |-> su[2], days_to_exp |-> dte,
      volume |-> 20000, avg_volume |-> av, open_interest |-> oi,
      premium |-> pr, premium_volume |-> pv, bid |-> ba[1], ask |-> ba[2]] :
        tt \in {"sweep", "block", "split_block", "single"}, ot \in {"call", "put"},
        su \in {<<150, 120>>, <<100, 120>>}, dte \in {18, 45, 46},
        av \in {0, 1000, 1001}, oi \in {0, 100000}, pr \in {13, 100, 101},
        pv \in {49999, 50000, 150000, 600000, 1200000},
        ba \in {<<12, 14>>, <<0, 14>>, <<50, 100>>, <<900, 1000>>}}

\* A second record for a feed of two: a block of 150,000 dollars.
SecondFlow ==
    [timestamp |-> 2, trade_type |-> "block", option_type |-> "call",
     strike |-> 150, underlying_price |-> 120, days_to_exp |-> 18,
     volume |-> 20000, avg_volume |-> 0, open_interest |-> 100000,
     premium |-> 13, premium_volume |-> 150000, bid |-> 12, ask |-> 14]

WhaleCalls ==
    {[call |-> "detect_institutional_flows", options_flow_data |-> <<f>>,
      done |-> FALSE, result |-> <<>>] : f \in RawFlows}
    \cup
    {[call |-> "detect_institutional_flows", options_flow_data |-> <<SecondFlow, f>>,
      done |-> FALSE, result |-> <<>>] :
        f \in {g \in RawFlows : g.days_to_exp = 18 /\ g.option_type = "call"
                                /\ g.avg_volume = 1000 /\ g.bid = 12}}

\* One detection pass over a feed; the feed is drawn when the run starts.
DetectInstitutionalFlowsCall ==
    /\ wcall.call = "detect_institutional_flows" /\ ~wcall.done
    /\ wcall' = [wcall EXCEPT !.done = TRUE,
                     !.result = DetectInstitutionalFlows(wcall.options_flow_data)]
    /\ UNCHANGED <<monitorVars, decisionVars, ledgerVars, queryVars, scannerVars, growthVars, flowLogVars, trackerVars>>

InitWhale ==
    /\ wcall \in WhaleCalls
    /\ MonitorIdle
    /\ DecisionsIdle
    /\ LedgerIdle
    /\ QueriesIdle
    /\ FlowLogIdle
    /\ TrackerIdle
    /\ ScannerIdle
    /\ GrowthIdle

NextWhale == DetectInstitutionalFlowsCall

SpecWhale == InitWhale /\ [][NextWhale]_vars

Detected == wcall.call = "detect_institutional_flows" /\ wcall.done

\* The record of the feed with timestamp t is among the flagged flows.
Flagged(t) == \E i \in 1..Len(wcall.result) : wcall.result[i].timestamp = t

\* Every gate of the detection holds for a raw record.
AllGatesHold(flow) ==
    /\ flow.premium_volume >= 50000
    /\ flow.premium <= 100
    /\ (flow.avg_volume > 0 => flow.volume >= 20 * flow.avg_volume)
    /\ flow.days_to_exp <= 45
    /\ flow.trade_type \in {"sweep", "block", "split_block"}
    /\ flow.bid > 0 /\ flow.ask > 0
    /\ 100 * (flow.ask - flow.bid) <= 30 * flow.ask

C21_Original ==
    Detected =>
        \A i \in 1..Len(wcall.result) :
            wcall.result[i].follow_trade # None =>
                LET follow_trade == wcall.result[i].follow_trade[1]
                IN  /\ follow_trade.suggested_contracts >= 1
                    /\ follow_trade.total_cost
                           = (wcall.result[i].bid + wcall.result[i].ask)
                                 * follow_trade.suggested_contracts
                    /\ follow_trade.total_cost >= 2 * FOLLOW_MIN_COST
                    /\ follow_trade.total_cost <= 2 * FOLLOW_MAX_COST

(***************************************************************************)
(* The enhanced whale tracker (core/whale_tracker_enhanced.py) and the     *)
(* validator it calls (utils/data_validator.py).  A flow record is a       *)
(* function from the keys it holds to their values: total_premium in       *)
(* dollars, bid, ask, premium, strike and underlying_price in cents, a     *)
(* ratio or a score as a fraction <<numerator, denominator>>.  The numeric *)
(* fields hold naturals; a value below 0 stands for a value that is no     *)
(* number (text such as 'n/a'), on which the code's comparisons with a     *)
(* number raise TypeError.  A call that raises returns the record          *)
(* [raised |-> the exception's name].  key_insights, a list of texts, is   *)
(* left out of the analysis.                                               *)
(***************************************************************************)

Has(d, k) == k \in DOMAIN d
DictGet(d, k, default) == IF Has(d, k) THEN d[k] ELSE default
Put(d, k, v) == [x \in DOMAIN d \cup {k} |-> IF x = k THEN v ELSE d[x]]
IsNumber(v) == v >= 0
Raised(exception) == [raised |-> exception]
HasRaised(r) == Has(r, "raised")

RECURSIVE GCD(_, _)
GCD(a, b) == IF b = 0 THEN a ELSE GCD(b, a % b)

\* Fractions with a positive denominator, kept in lowest terms.
Frac(n, d) == LET g == GCD(n, d) IN IF g = 0 THEN <<0, 1>> ELSE <<n \div g, d \div g>>
FracAdd(a, b) == Frac(a[1] * b[2] + b[1] * a[2], a[2] * b[2])
FracGE(a, b) == a[1] * b[2] >= b[1] * a[2]
FracLE(a, b) == a[1] * b[2] <= b[1] * a[2]
Whole(n) == <<n, 1>>

\* validate_whale_flow, "Apply field mappings": one standard field.
MapField(validated, flow, standard_field, alternatives) ==
    IF Has(validated, standard_field) THEN validated
    ELSE LET present == {i \in 1..Len(alternatives) : Has(flow, alternatives[i])}
         IN  IF present = {} THEN validated
             ELSE LET first == CHOOSE i \in present : \A j \in present : i <= j
                  IN  Put(validated, standard_field, flow[alternatives[first]])

\* validate_whale_flow: required_with_defaults
required_with_defaults ==
    [symbol |-> "UNKNOWN", underlying_price |-> 0, trade_type |-> "unknown",
     option_type |-> "unknown", strike |-> 0, expiration |-> "", days_to_exp |-> 0,
     volume |-> 0, premium |-> 0, total_premium |-> 0, open_interest |-> 1,
     bid |-> 0, ask |-> 0, volume_oi_ratio |-> Whole(0),
     execution_side |-> "unknown", bid_ask_spread |-> 0]

\* validate_whale_flow, lines 52-82: the field mappings, then the defaults
\* for the fields that are still missing.
ApplyDefaults(flow) ==
    MapField(MapField(MapField(MapField(flow, flow,
        "volume", <<"contracts", "volume">>), flow,
        "premium", <<"premium_per_contract", "premium">>), flow,
        "total_premium", <<"premium_volume", "total_premium">>), flow,
        "volume_oi_ratio", <<"volume_oi_ratio", "vol_oi_ratio">>)
        @@ required_with_defaults

\* validate_whale_flow, lines 85-86: volume_oi_ratio from volume and
\* open_interest; TypeError when one of them is no number.
DeriveRatio(validated) ==
    IF validated.volume_oi_ratio[1] # 0 THEN validated
    ELSE IF ~IsNumber(validated.volume) THEN Raised("TypeError")
    ELSE IF validated.volume = 0 THEN validated
    ELSE IF ~IsNumber(validated.open_interest) THEN Raised("TypeError")
    ELSE Put(validated, "volume_oi_ratio",
             Frac(validated.volume, Max(validated.open_interest, 1)))

\* validate_whale_flow, lines 88-89: total_premium from premium and volume.
DeriveTotal(validated) ==
    IF HasRaised(validated) THEN validated
    ELSE IF validated.total_premium # 0 \/ validated.premium <= 0 THEN validated
    ELSE IF ~IsNumber(validated.volume) THEN Raised("TypeError")
    ELSE Put(validated, "total_premium", validated.premium * validated.volume)

\* validate_whale_flow, lines 91-92: bid_ask_spread from ask and bid.
DeriveSpread(validated) ==
    IF HasRaised(validated) THEN validated
    ELSE IF validated.bid_ask_spread = 0
    THEN Put(validated, "bid_ask_spread", validated.ask - validated.bid)
    ELSE validated

\* DataValidator.validate_whale_flow(flow): the validated record, or
\* Raised("TypeError") when a derived field is computed from a value that is
\* no number.
ValidateWhaleFlow(flow) == DeriveSpread(DeriveTotal(DeriveRatio(ApplyDefaults(flow))))

\* DataValidator.create_error_response(error_msg, data_type), without the
\* message.
CreateErrorResponse(data_type) ==
    [error |-> TRUE, data_type |-> data_type, whale_score |-> 0,
     conviction_level |-> "ERROR", recommended_action |-> "SKIP"]

\* _calculate_flow_metrics(flow); otm_percentage and spread_percentage are
\* fractions.
CalculateFlowMetrics(flow) ==
    LET current_price == DictGet(flow, "underlying_price", 0)
        strike == DictGet(flow, "strike", 0)
        otm_pct == IF current_price > 0
                   THEN IF DictGet(flow, "option_type", "") = "call"
                        THEN 100 * (strike - current_price)
                        ELSE 100 * (current_price - strike)
                   ELSE 0
        volume == DictGet(flow, "contracts", DictGet(flow, "volume", 0))
        ask == DictGet(flow, "ask", 0)
        bid == DictGet(flow, "bid", 0)
        spread == ask - bid
    IN  [contracts |-> volume,
         total_premium |-> DictGet(flow, "total_premium", DictGet(flow, "premium_volume", 0)),
         premium_per_contract |-> DictGet(flow, "premium_per_contract", DictGet(flow, "premium", 0)),
         volume_oi_ratio |-> flow.volume_oi_ratio,
         days_to_exp |-> DictGet(flow, "days_to_exp", 0),
         otm_percentage |-> IF otm_pct > 0 THEN Frac(otm_pct, current_price) ELSE Whole(0),
         bid_ask_spread |-> DictGet(flow, "bid_ask_spread", spread),
         spread_percentage |-> IF ask > 0 THEN Frac(100 * spread, ask) ELSE Whole(0)]

\* self.thresholds
min_premium_high_conviction == 250000
min_premium_moderate        == 100000
min_premium_interesting     == 50000
volume_oi_ratio_strong      == <<2, 1>>
volume_oi_ratio_moderate    == <<3, 2>>
volume_oi_ratio_minimum     == <<1, 1>>
max_dte_directional         == 45
min_dte_conviction          == 7
optimal_dte_range           == <<14, 35>>
round_lot_sizes             == <<1000, 5000, 10000, 25000, 50000>>
min_contracts_institutional == 500
max_bid_ask_spread_pct      == 10
min_open_interest           == 1000

\* _score_premium(premium)
ScorePremium(premium) ==
    IF premium >= min_premium_high_conviction THEN Whole(100)
    ELSE IF premium >= min_premium_moderate THEN Whole(80)
    ELSE IF premium >= min_premium_interesting THEN Whole(60)
    ELSE Frac(premium * 60, min_premium_interesting)

\* _score_volume_oi(ratio)
ScoreVolumeOi(ratio) ==
    IF FracGE(ratio, volume_oi_ratio_strong) THEN Whole(100)
    ELSE IF FracGE(ratio, volume_oi_ratio_moderate) THEN Whole(80)
    ELSE IF FracGE(ratio, volume_oi_ratio_minimum) THEN Whole(60)
    ELSE Frac(ratio[1] * 60, ratio[2])

\* datetime.fromisoformat(text).hour: the hour of an ISO timestamp, or None
\* for a text that fromisoformat rejects with ValueError.
FromIsoformatHour(text) ==
    IF text = "2025-01-15T09:30:00" THEN Some(9)
    ELSE IF text = "2025-01-15T11:00:00" THEN Some(11)
    ELSE IF text = "2025-01-15T16:00:00" THEN Some(16)
    ELSE None

\* _score_execution(flow), at an hour now_hour of the clock: the score, or
\* Raised("ValueError") for a timestamp that does not parse.
ScoreExecution(flow, now_hour) ==
    LET trade_type == DictGet(flow, "trade_type", "")
        execution_side == DictGet(flow, "execution_side", "")
        by_type == IF trade_type = "sweep" THEN 40
                   ELSE IF trade_type = "block" THEN 35
                   ELSE IF trade_type = "split" THEN 25
                   ELSE 10
        by_side == IF execution_side = "ask" THEN 30
                   ELSE IF execution_side = "mid" THEN 20
                   ELSE 10
        parsed == IF Has(flow, "timestamp") THEN FromIsoformatHour(flow.timestamp)
                  ELSE Some(now_hour)
    IN  IF parsed = None THEN Raised("ValueError")
        ELSE LET hour == parsed[1]
                 by_hour == IF 10 <= hour /\ hour <= 15 THEN 20
                            ELSE IF hour < 10 THEN 5
                            ELSE 10
                 bonus == IF DictGet(flow, "multi_strike", FALSE) THEN 10 ELSE 0
             IN  [score |-> Whole(Min(100, by_type + by_side + by_hour + bonus))]

\* _score_timing(metrics)
ScoreTiming(metrics) ==
    LET dte == metrics.days_to_exp
    IN  IF optimal_dte_range[1] <= dte /\ dte <= optimal_dte_range[2] THEN Whole(100)
        ELSE IF min_dte_conviction <= dte /\ dte <= max_dte_directional
        THEN IF dte < optimal_dte_range[1]
             THEN FracAdd(Whole(60), Frac(dte * 40, optimal_dte_range[1]))
             ELSE FracAdd(Whole(60),
                          Frac((max_dte_directional - dte) * 40,
                               max_dte_directional - optimal_dte_range[2]))
        ELSE Whole(30)

\* _score_size_pattern(contracts): the score, or Raised("TypeError") for a
\* count that is no number.
ScoreSizePattern(contracts) ==
    IF ~IsNumber(contracts) THEN Raised("TypeError")
    ELSE IF \E i \in 1..Len(round_lot_sizes) :
               contracts >= round_lot_sizes[i] /\ contracts % round_lot_sizes[i] = 0
    THEN [score |-> Whole(100)]
    ELSE IF \E i \in 1..Len(round_lot_sizes) :
               /\ 9 * round_lot_sizes[i] <= 10 * contracts
               /\ 10 * contracts <= 11 * round_lot_sizes[i]
    THEN [score |-> Whole(80)]
    ELSE IF contracts >= min_contracts_institutional
    THEN [score |-> FracAdd(Whole(60), Frac(Min(40 * 10000, contracts * 40), 10000))]
    ELSE [score |-> Frac(contracts * 60, min_contracts_institutional)]

\* _score_liquidity(flow)
ScoreLiquidity(flow) ==
    LET oi == DictGet(flow, "open_interest", 0)
        by_oi == IF oi >= 10000 THEN Whole(50)
                 ELSE IF oi >= 5000 THEN Whole(40)
                 ELSE IF oi >= min_open_interest THEN Whole(30)
                 ELSE Frac(oi * 30, min_open_interest)
        \* max(flow.get('ask', 1), 1) is in dollars: 100 cents
        spread_pct == Frac(100 * (DictGet(flow, "ask", 0) - DictGet(flow, "bid", 0)),
                           Max(DictGet(flow, "ask", 100), 100))
        by_spread == IF FracLE(spread_pct, Whole(2)) THEN Whole(50)
                     ELSE IF FracLE(spread_pct, Whole(5)) THEN Whole(40)
                     ELSE IF FracLE(spread_pct, Whole(max_bid_ask_spread_pct)) THEN Whole(30)
                     ELSE LET n == (30 + 2 * max_bid_ask_spread_pct) * spread_pct[2]
                                       - 2 * spread_pct[1]
                          IN  IF n > 0 THEN Frac(n, spread_pct[2]) ELSE Whole(0)
    IN  FracAdd(by_oi, by_spread)

\* _check_winning_patterns(flow, metrics)
CheckWinningPatterns(flow, metrics) ==
    LET otm == metrics.otm_percentage
        perfect_storm ==
            /\ FracGE(metrics.volume_oi_ratio, Whole(2))
            /\ metrics.total_premium >= 500000
            /\ DictGet(flow, "trade_type", "") \in {"sweep"}
            /\ DictGet(flow, "execution_side", "") = "ask"
        pre_breakout ==
            /\ FracLE(Whole(10), otm) /\ FracLE(otm, Whole(20))
            /\ 20 <= metrics.days_to_exp /\ metrics.days_to_exp <= 40
    IN  (IF perfect_storm THEN <<"PERFECT_STORM">> ELSE <<>>)
            \o (IF pre_breakout THEN <<"PRE_BREAKOUT">> ELSE <<>>)

\* _assess_risk_reward(flow, metrics)
AssessRiskReward(flow, metrics) ==
    LET above(k) == ~FracLE(metrics.otm_percentage, Whole(k))
    IN  IF above(20) THEN "HIGH_RISK"
        ELSE IF above(15)
        THEN IF metrics.total_premium > min_premium_moderate THEN "MODERATE_REWARD"
             ELSE "MODERATE_RISK"
        ELSE IF above(10) THEN "BALANCED"
        ELSE "CONSERVATIVE"

\* The weighted sum of analyze_whale_flow, as a fraction; the weights are in
\* hundredths.
WeightedScore(premium, volume_oi, execution, timing, size, liquidity) ==
    LET part(weight, score) == Frac(weight * score[1], 100 * score[2])
    IN  FracAdd(part(20, premium),
        FracAdd(part(25, volume_oi),
        FracAdd(part(20, execution),
        FracAdd(part(15, timing),
        FracAdd(part(10, size), part(10, liquidity))))))

\* The conviction bands of analyze_whale_flow, on the score they are given.
ConvictionOf(whale_score) ==
    IF FracGE(whale_score, Whole(85)) THEN <<"EXTREME", "STRONG FOLLOW">>
    ELSE IF FracGE(whale_score, Whole(75)) THEN <<"HIGH", "FOLLOW">>
    ELSE IF FracGE(whale_score, Whole(65)) THEN <<"MODERATE", "CONSIDER">>
    ELSE <<"LOW", "PASS">>

\* analyze_whale_flow, lines 155-174: the returned analysis.
BuildAnalysis(flow_data, validated_flow, metrics, whale_score) ==
    [whale_score |-> RoundHalfEven(whale_score[1], whale_score[2]),
     pattern_matches |-> CheckWinningPatterns(validated_flow, metrics),
     conviction_level |-> ConvictionOf(whale_score)[1],
     recommended_action |-> ConvictionOf(whale_score)[2],
     institutional_probability |->
         25 * Cardinality({k \in 1..4 :
                 \/ k = 1 /\ metrics.total_premium > min_premium_moderate
                 \/ k = 2 /\ flow_data.trade_type \in {"sweep", "block"}
                 \/ k = 3 /\ \E i \in 1..Len(round_lot_sizes) :
                                 metrics.contracts = round_lot_sizes[i]
                 \/ k = 4 /\ ~FracLE(metrics.volume_oi_ratio, volume_oi_ratio_moderate)}),
     risk_reward_rating |-> AssessRiskReward(validated_flow, metrics)]

\* analyze_whale_flow, lines 114-159, given the two scores that can raise:
\* their exception, or KeyError for flow_data['trade_type'], or the analysis.
ScoreFlow(flow_data, validated_flow, metrics, execution_score, size_score) ==
    IF HasRaised(execution_score) THEN execution_score
    ELSE IF HasRaised(size_score) THEN size_score
    ELSE IF ~Has(flow_data, "trade_type") THEN Raised("KeyError")
    ELSE BuildAnalysis(flow_data, validated_flow, metrics,
             WeightedScore(ScorePremium(metrics.total_premium),
                           ScoreVolumeOi(metrics.volume_oi_ratio),
                           execution_score.score, ScoreTiming(metrics),
                           size_score.score, ScoreLiquidity(flow_data)))

\* analyze_whale_flow, lines 102-112: the try block around validation and
\* metrics; an exception of the validator becomes the error response.
AnalyzeValidated(flow_data, validated_flow, metrics, now_hour) ==
    IF HasRaised(validated_flow) THEN CreateErrorResponse("whale_flow")
    ELSE ScoreFlow(flow_data, validated_flow, metrics,
                   ScoreExecution(flow_data, now_hour),
                   ScoreSizePattern(metrics.contracts))

\* _calculate_flow_metrics of what the validator returned.
MetricsOf(validated_flow) ==
    IF HasRaised(validated_flow) THEN <<>> ELSE CalculateFlowMetrics(validated_flow)

\* analyze_whale_flow(flow_data), called at an hour now_hour of the clock:
\* the analysis, the error response, or Raised(exception).
AnalyzeWhaleFlow(flow_data, now_hour) ==
    AnalyzeValidated(flow_data, ValidateWhaleFlow(flow_data),
                     MetricsOf(ValidateWhaleFlow(flow_data)), now_hour)

\* A record without some of its keys.
Without(d, keys) == [k \in DOMAIN d \ keys |-> d[k]]

\* Flow records that hold every key analyze_whale_flow reads.
FullFlows ==
    {[symbol |-> "PLTR", total_premium |-> tp, volume_oi_ratio |-> ratio,
      trade_type |-> tt, execution_side |-> es, timestamp |-> ts,
      days_to_exp |-> dte, contracts |-> c, open_interest |-> 500,
      bid |-> ba[1], ask |-> ba[2], option_type |-> "call",
      strike |-> 112, underlying_price |-> 100] :
        tp \in {40000, 60000, 150000, 600000},
        ratio \in {<<1, 2>>, <<3, 2>>, <<5, 2>>},
        tt \in {"sweep", "block", "split", "single"}, es \in {"ask", "mid", "bid"},
        ts \in {"2025-01-15T09:30:00", "2025-01-15T11:00:00", "2025-01-15T16:00:00"},
        dte \in {0, 10, 21, 40}, c \in {450, 600, 5000},
        ba \in {<<100, 100>>, <<88, 100>>}}

\* The records whose other fields change: a liquid contract with a
\* multi-strike flag, a ratio left to the validator, fields that are missing,
\* a timestamp that does not parse, a contract count that is text.
OtherFlows ==
    LET some == {f \in FullFlows : f.days_to_exp = 21 /\ f.bid = 100
                                   /\ f.timestamp = "2025-01-15T11:00:00"}
    IN  {Put(Put(f, "open_interest", 10000), "multi_strike", TRUE) : f \in some}
        \cup {Without(f, {"volume_oi_ratio"}) : f \in some}
        \cup {Without(f, {"trade_type"}) : f \in some}
        \cup {Without(f, {"timestamp"}) : f \in some}
        \cup {Put(f, "timestamp", "yesterday") : f \in some}
        \cup {Put(f, "contracts", -1) : f \in some}
        \cup {Without(Put(f, "contracts", -1), {"volume_oi_ratio"}) : f \in some}
        \cup {Without(f, {"symbol", "timestamp", "days_to_exp", "contracts",
                          "open_interest", "bid", "ask", "option_type", "strike",
                          "underlying_price"}) : f \in some}

\* The hours of the clock at which a call is made.
NowHours == {9, 11, 16}

EnhancedCalls ==
    {[call |-> "analyze_whale_flow", flow_data |-> f, now_hour |-> 11,
      done |-> FALSE, result |-> <<>>] : f \in FullFlows}
    \cup
    {[call |-> "analyze_whale_flow", flow_data |-> f, now_hour |-> h,
      done |-> FALSE, result |-> <<>>] : f \in OtherFlows, h \in NowHours}

\* One call of analyze_whale_flow; the record is drawn when the run starts.
AnalyzeWhaleFlowCall ==
    /\ wcall.call = "analyze_whale_flow" /\ ~wcall.done
    /\ wcall' = [wcall EXCEPT !.done = TRUE,
                     !.result = AnalyzeWhaleFlow(wcall.flow_data, wcall.now_hour)]
    /\ UNCHANGED <<monitorVars, decisionVars, ledgerVars, queryVars, scannerVars, growthVars, flowLogVars, trackerVars>>

InitEnhanced ==
    /\ wcall \in EnhancedCalls
    /\ MonitorIdle
    /\ DecisionsIdle
    /\ LedgerIdle
    /\ QueriesIdle
    /\ FlowLogIdle
    /\ TrackerIdle
    /\ ScannerIdle
    /\ GrowthIdle

NextEnhanced == AnalyzeWhaleFlowCall

SpecEnhanced == InitEnhanced /\ [][NextEnhanced]_vars

Analyzed == wcall.call = "analyze_whale_flow" /\ wcall.done

\* The call returned an analysis: it neither raised nor returned the error
\* response.
AnalysisReturned == Analyzed /\ ~HasRaised(wcall.result) /\ ~Has(wcall.result, "error")

\* C22 as stated: in every non-error result the conviction_level and the
\* recommended_action are the bands of the reported whale_score: >= 85
\* EXTREME / STRONG FOLLOW, >= 75 HIGH / FOLLOW, >= 65 MODERATE / CONSIDER,
\* lower LOW / PASS.
C22_Original ==
    AnalysisReturned =>
        LET expected == IF wcall.result.whale_score >= 85 THEN <<"EXTREME", "STRONG FOLLOW">>
                        ELSE IF wcall.result.whale_score >= 75 THEN <<"HIGH", "FOLLOW">>
                        ELSE IF wcall.result.whale_score >= 65 THEN <<"MODERATE", "CONSIDER">>
                        ELSE <<"LOW", "PASS">>
        IN  /\ wcall.result.conviction_level = expected[1]
            /\ wcall.result.recommended_action = expected[2]

\* C23 as stated: analyze_whale_flow never raises; for a record it cannot
\* score it returns the error response (conviction_level ERROR, whale_score
\* 0).
C23_Original ==
    Analyzed =>
        /\ ~HasRaised(wcall.result)
        /\ (Has(wcall.result, "error") =>
                wcall.result.conviction_level = "ERROR" /\ wcall.result.whale_score = 0)

\* C24 as stated: every flow with total_premium >= 500,000, volume /
\* open-interest ratio >= 2.0, trade_type sweep and execution_side ask is
\* analysed with PERFECT_STORM among its pattern_matches, whale_score >= 85
\* and conviction_level EXTREME, whatever its other fields hold.
C24_Original ==
    (/\ Analyzed
     /\ DictGet(wcall.flow_data, "total_premium", 0) >= 500000
     /\ FracGE(DictGet(wcall.flow_data, "volume_oi_ratio", Whole(0)), Whole(2))
     /\ DictGet(wcall.flow_data, "trade_type", "") = "sweep"
     /\ DictGet(wcall.flow_data, "execution_side", "") = "ask")
        => /\ AnalysisReturned
           /\ \E i \in 1..Len(wcall.result.pattern_matches) :
                  wcall.result.pattern_matches[i] = "PERFECT_STORM"
           /\ wcall.result.whale_score >= 85
           /\ wcall.result.conviction_level = "EXTREME"

(***************************************************************************)
(* The decision log again: the return an outcome leaves, and the           *)
(* statistics over the log.                                                *)
(***************************************************************************)

\* C25 as stated: record_outcome with outcome EXPIRED_WORTHLESS on any logged
\* decision leaves that decision with actual_return equal to its premium.
C25_Original ==
    (/\ dcall.call = "record_outcome"
     /\ dcall.ret
     /\ decisions[dcall.id].outcome = Some("EXPIRED_WORTHLESS"))
        => decisions[dcall.id].actual_return = Some(decisions[dcall.id].premium)

\* sum(d.get('actual_return', 0) for d in completed_trades if
\* d.get('actual_return')), over the decisions ds[i..].
RECURSIVE SumReturns(_, _)
SumReturns(ds, i) ==
    IF i > Len(ds) THEN 0
    ELSE LET d == ds[i]
             counted == /\ d.decision = "TAKE" /\ d.outcome # None
                        /\ d.actual_return # None /\ d.actual_return # Some(0)
         IN  (IF counted THEN d.actual_return[1] ELSE 0) + SumReturns(ds, i + 1)

\* get_statistics() on the log ds: the statistics, or Raised("TypeError")
\* when max() or min() compares an actual_return that is None.  Rates are
\* fractions; a trade is named by its id.
GetStatistics(ds) ==
    LET taken_trades == {i \in 1..Len(ds) : ds[i].decision = "TAKE"}
        completed_trades == {i \in taken_trades : ds[i].outcome # None}
        total_passed == Cardinality({i \in 1..Len(ds) : ds[i].decision = "PASS"})
        take_rate == IF Len(ds) > 0 THEN <<Cardinality(taken_trades), Len(ds)>> ELSE <<0, 1>>
    IN  IF completed_trades = {}
        THEN [total_shown |-> Len(ds), total_taken |-> Cardinality(taken_trades),
              total_passed |-> total_passed, take_rate |-> take_rate,
              completed_trades |-> 0, win_rate |-> <<0, 1>>, avg_return |-> <<0, 1>>,
              best_trade |-> None, worst_trade |-> None]
        ELSE
        LET wins == {i \in completed_trades :
                        ds[i].outcome \in {Some("WIN"), Some("EXPIRED_WORTHLESS")}}
            total_return == SumReturns(ds, 1)
            key(i) == ds[i].actual_return
            n == Cardinality(completed_trades)
        IN  IF n >= 2 /\ \E i \in completed_trades : key(i) = None
            THEN Raised("TypeError")
            ELSE
            LET best == CHOOSE i \in completed_trades :
                            \A j \in completed_trades :
                                n >= 2 => \/ key(j)[1] < key(i)[1]
                                          \/ key(j)[1] = key(i)[1] /\ i <= j
                worst == CHOOSE i \in completed_trades :
                            \A j \in completed_trades :
                                n >= 2 => \/ key(j)[1] > key(i)[1]
                                          \/ key(j)[1] = key(i)[1] /\ i <= j
            IN  [total_shown |-> Len(ds), total_taken |-> Cardinality(taken_trades),
                 total_passed |-> total_passed, take_rate |-> take_rate,
                 completed_trades |-> n, win_rate |-> <<Cardinality(wins), n>>,
                 avg_return |-> <<total_return, n>>, total_return |-> total_return,
                 best_trade |-> Some(ds[best].id), worst_trade |-> Some(ds[worst].id)]

\* One call of get_statistics on the log as it stands.
GetStatisticsCall ==
    /\ dcall' = [call |-> "get_statistics", id |-> 0, ret |-> GetStatistics(decisions)]
    /\ UNCHANGED <<decisions, monitorVars, ledgerVars, queryVars, scannerVars, growthVars, whaleVars, flowLogVars, trackerVars>>

NextStatistics ==
    \/ NextDecisions
    \/ GetStatisticsCall

SpecStatistics == InitDecisions /\ [][NextStatistics]_vars

\* C29 as stated: get_statistics() returns a statistics record without
\* raising in every state of the log that log_opportunity, update_decision and
\* record_outcome reach.
C29_Original ==
    dcall.call = "get_statistics" => ~HasRaised(dcall.ret)

(***************************************************************************)
(* The whale-flow log (core/whale_flow_tracker_simple.py).  A logged flow  *)
(* is a function from the keys it holds to their values; premium and       *)
(* result_price are cents, followed_cost and result_pnl are dollars,       *)
(* result_return_pct is a fraction.  followed_flows holds references to    *)
(* the dicts of flows: the model keeps their ids.  logged_at, result_date  *)
(* and notes are left out, and so is what a call returns.                  *)
(***************************************************************************)

MaxFlows == 2              \* bound: how many flows are logged

\* The flows handed to log_flow: one as the detector emits it, one that
\* carries a premium.
LoggedFlows == {[symbol |-> "PLTR", premium_per_contract |-> 13],
                [symbol |-> "AMD", premium |-> 50]}

FollowContracts == {2}
FollowCosts     == {26}
ToggleCosts     == {None, Some(100)}
ResultPrices    == {40}
FlowOutcomes    == {"WIN", "LOSS"}
FlowIds         == 1..(MaxFlows + 1)

\* The index of the first flow whose id is flow_id, 0 when the loop finds
\* none.
FindFlow(flow_id) ==
    LET found == {i \in 1..Len(flows) : DictGet(flows[i], "id", 0) = flow_id}
    IN  IF found = {} THEN 0 ELSE CHOOSE i \in found : \A j \in found : i <= j

\* "if flow not in self.followed_flows: self.followed_flows.append(flow)"
AppendFollowed(flow_id) ==
    IF \E k \in 1..Len(followed_flows) : followed_flows[k] = flow_id
    THEN followed_flows
    ELSE Append(followed_flows, flow_id)

\* "if flow in self.followed_flows: self.followed_flows.remove(flow)"
RemoveFollowed(flow_id) ==
    LET at == {k \in 1..Len(followed_flows) : followed_flows[k] = flow_id}
    IN  IF at = {} THEN followed_flows
        ELSE LET first == CHOOSE k \in at : \A j \in at : k <= j
             IN  [k \in 1..(Len(followed_flows) - 1) |->
                     IF k < first THEN followed_flows[k] ELSE followed_flows[k + 1]]

\* log_flow(flow): {'id': len(self.flows) + 1, 'logged_at': ..., **flow}
LogFlow(flow) ==
    /\ Len(flows) < MaxFlows
    /\ flows' = Append(flows, flow @@ [id |-> Len(flows) + 1])
    /\ UNCHANGED <<followed_flows, monitorVars, decisionVars, ledgerVars, queryVars,
                   scannerVars, growthVars, whaleVars, trackerVars>>

\* record_follow(flow_id, contracts, cost)
RecordFollow(flow_id, contracts, cost) ==
    LET i == FindFlow(flow_id)
    IN  /\ IF i = 0
           THEN UNCHANGED <<flows, followed_flows>>
           ELSE /\ flows' = [flows EXCEPT ![i] =
                       Put(Put(Put(@, "followed", TRUE),
                               "followed_contracts", contracts),
                           "followed_cost", cost)]
                /\ followed_flows' = AppendFollowed(flows[i].id)
        /\ UNCHANGED <<monitorVars, decisionVars, ledgerVars, queryVars,
                       scannerVars, growthVars, whaleVars, trackerVars>>

\* toggle_followed(flow_id, contracts, cost); "cost or (...)" takes the
\* computed cost for None and for 0.
ToggleFollowed(flow_id, contracts, cost) ==
    LET i == FindFlow(flow_id)
    IN  /\ IF i = 0
           THEN UNCHANGED <<flows, followed_flows>>
           ELSE LET flow == flows[i]
                    current_followed == DictGet(flow, "followed", FALSE)
                    given == IF cost = None \/ cost = Some(0)
                             THEN contracts * DictGet(flow, "premium", 0)
                             ELSE cost[1]
                IN  IF ~current_followed
                    THEN /\ flows' = [flows EXCEPT ![i] =
                                Put(Put(Put(@, "followed", TRUE),
                                        "followed_contracts", contracts),
                                    "followed_cost", given)]
                         /\ followed_flows' = AppendFollowed(flow.id)
                    ELSE /\ flows' = [flows EXCEPT ![i] =
                                Put(Put(Put(@, "followed", FALSE),
                                        "followed_contracts", 0),
                                    "followed_cost", 0)]
                         /\ followed_flows' = RemoveFollowed(flow.id)
        /\ UNCHANGED <<monitorVars, decisionVars, ledgerVars, queryVars,
                       scannerVars, growthVars, whaleVars, trackerVars>>

\* update_outcome(flow_id, result_price, outcome)
UpdateOutcome(flow_id, result_price, outcome) ==
    LET i == FindFlow(flow_id)
    IN  /\ IF i = 0
           THEN flows' = flows
           ELSE LET flow == flows[i]
                    contracts == DictGet(flow, "followed_contracts", 0)
                    cost == DictGet(flow, "followed_cost", 0)
                    revenue == result_price * contracts
                    pnl == revenue - cost
                    return_pct == IF cost > 0 THEN Frac(100 * pnl, cost) ELSE Whole(0)
                    followed == DictGet(flow, "followed", FALSE)
                IN  flows' = [flows EXCEPT ![i] =
                        Put(Put(Put(Put(@, "result_price", result_price),
                                    "outcome", outcome),
                                "result_pnl", IF followed THEN pnl ELSE 0),
                            "result_return_pct", IF followed THEN return_pct ELSE Whole(0))]
        /\ UNCHANGED <<followed_flows, monitorVars, decisionVars, ledgerVars, queryVars,
                       scannerVars, growthVars, whaleVars, trackerVars>>

InitFlowLog ==
    /\ flows = <<>>
    /\ followed_flows = <<>>
    /\ MonitorIdle
    /\ DecisionsIdle
    /\ LedgerIdle
    /\ QueriesIdle
    /\ AnalysisIdle
    /\ TrackerIdle

NextFlowLog ==
    \/ \E flow \in LoggedFlows : LogFlow(flow)
    \/ \E id \in FlowIds, n \in FollowContracts, cost \in FollowCosts :
           RecordFollow(id, n, cost)
    \/ \E id \in FlowIds, n \in FollowContracts, cost \in ToggleCosts :
           ToggleFollowed(id, n, cost)
    \/ \E id \in FlowIds, price \in ResultPrices, outcome \in FlowOutcomes :
           UpdateOutcome(id, price, outcome)

SpecFlowLog == InitFlowLog /\ [][NextFlowLog]_vars

\* C26 as stated: every stored flow that is not followed has
\* followed_contracts = 0 and followed_cost = 0 (or neither set), and a flow
\* carries a non-zero result_pnl only while it is followed.
C26_Original ==
    \A i \in 1..Len(flows) :
        LET followed == DictGet(flows[i], "followed", FALSE)
        IN  /\ ~followed => /\ DictGet(flows[i], "followed_contracts", 0) = 0
                            /\ DictGet(flows[i], "followed_cost", 0) = 0
            /\ DictGet(flows[i], "result_pnl", 0) # 0 => followed

(***************************************************************************)
(* The trade tracker (core/trade_tracker.py).  trades is the table         *)
(* trade_opportunities: row i has id i (AUTOINCREMENT, and no row is ever  *)
(* deleted).  Of a row the model keeps the columns the calls below read    *)
(* or write: premium, strike and closing_price in cents, profit_loss in    *)
(* dollars, expiration as a day number, a NULL as None.                    *)
(***************************************************************************)

MaxTrades == 2             \* bound: how many opportunities are logged

\* The columns of trade_opportunities in the order of CREATE TABLE, which is
\* the order of the tuple that "SELECT *" fetches.
Columns ==
    <<"id", "date_presented", "symbol", "strategy", "strike", "expiration",
      "days_to_exp", "premium", "bid", "ask", "volume", "open_interest", "iv_rank",
      "iv_percentile", "delta", "growth_score", "confidence_score", "monthly_yield",
      "win_probability", "decision", "contracts", "decision_date", "reason",
      "date_closed", "closing_price", "profit_loss", "outcome", "notes">>

\* The columns declared TEXT.
TextColumns ==
    {"date_presented", "symbol", "strategy", "expiration", "decision",
     "decision_date", "reason", "date_closed", "outcome", "notes"}

\* trade[k] of a fetched tuple: the name of the column at Python index k.
ColumnAt(k) == Columns[k + 1]

\* The trade_data dicts handed to log_opportunity.
TradeDatas ==
    {[symbol |-> "AAPL", strike |-> 10000, expiration |-> e, premium |-> 200] :
        e \in {NowDay - 1, NowDay + 5, NowDay + 25}}

TradeIds          == 1..(MaxTrades + 1)
TrackerDecisions  == {"TAKE", "PASS", "MAYBE"}
TrackerContracts  == {0, 2}
ClosingPrices     == {0, 50}
CloseOutcomes     == {"WIN", "EXPIRED", "CANCELLED"}

\* log_opportunity(trade_data): INSERT; decision and the closing columns are
\* NULL, contracts takes its DEFAULT 0.
TrackerLogOpportunity(trade_data) ==
    /\ Len(trades) < MaxTrades
    /\ trades' = Append(trades,
           [id |-> Len(trades) + 1, symbol |-> trade_data.symbol,
            strike |-> trade_data.strike, expiration |-> trade_data.expiration,
            premium |-> trade_data.premium, decision |-> None, contracts |-> 0,
            closing_price |-> None, profit_loss |-> None, outcome |-> None])
    /\ tcall' = [call |-> "log_opportunity", id |-> Len(trades) + 1, ret |-> Len(trades) + 1]
    /\ UNCHANGED <<monitorVars, decisionVars, ledgerVars, queryVars, scannerVars,
                   growthVars, whaleVars, flowLogVars>>

\* update_decision(trade_id, decision, contracts): ValueError for a decision
\* that is neither TAKE nor PASS, else UPDATE ... WHERE id = trade_id and
\* whether a row was changed.
TrackerUpdateDecision(trade_id, decision, contracts) ==
    /\ IF decision \notin {"TAKE", "PASS"}
       THEN /\ trades' = trades
            /\ tcall' = [call |-> "update_decision", id |-> trade_id,
                         ret |-> Raised("ValueError")]
       ELSE /\ trades' = [i \in 1..Len(trades) |->
                             IF trades[i].id = trade_id
                             THEN [trades[i] EXCEPT !.decision = Some(decision),
                                                    !.contracts = contracts]
                             ELSE trades[i]]
            /\ tcall' = [call |-> "update_decision", id |-> trade_id,
                         ret |-> (trade_id \in 1..Len(trades))]
    /\ UNCHANGED <<monitorVars, decisionVars, ledgerVars, queryVars, scannerVars,
                   growthVars, whaleVars, flowLogVars>>

\* A value of the fetched tuple as an operand of "*": a number, or None where
\* the multiplication raises TypeError (a TEXT column, or a NULL).
Operand(trade, column) ==
    IF column \in TextColumns THEN None
    ELSE IF column \in {"closing_price", "profit_loss"} THEN trade[column]
    ELSE Some(trade[column])

\* close_trade(trade_id, closing_price, outcome): ValueError for an outcome
\* that is not one of the five, (False, {}) for an id that has no row, else
\* the P&L from trade[7] and trade[19] and the UPDATE.
CloseTrade(trade_id, closing_price, outcome) ==
    /\ IF outcome \notin {"WIN", "LOSS", "ASSIGNED", "EXPIRED", "ROLLED"}
       THEN /\ trades' = trades
            /\ tcall' = [call |-> "close_trade", id |-> trade_id,
                         ret |-> Raised("ValueError")]
       ELSE IF trade_id \notin 1..Len(trades)
       THEN /\ trades' = trades
            /\ tcall' = [call |-> "close_trade", id |-> trade_id, ret |-> [success |-> FALSE]]
       ELSE LET trade == trades[trade_id]
                a == Operand(trade, ColumnAt(7))
                b == Operand(trade, ColumnAt(19))
            IN  IF a = None \/ b = None
                THEN /\ trades' = trades
                     /\ tcall' = [call |-> "close_trade", id |-> trade_id,
                                  ret |-> Raised("TypeError")]
                ELSE LET premium_collected == a[1] * b[1]
                         closing_cost == IF closing_price # 0
                                         THEN closing_price * b[1] ELSE 0
                         profit_loss == premium_collected - closing_cost
                     IN  /\ trades' = [trades EXCEPT ![trade_id] =
                                 [@ EXCEPT !.closing_price = Some(closing_price),
                                           !.profit_loss = Some(profit_loss),
                                           !.outcome = Some(outcome)]]
                         /\ tcall' = [call |-> "close_trade", id |-> trade_id,
                                      ret |-> [success |-> TRUE,
                                               premium_collected |-> premium_collected,
                                               closing_cost |-> closing_cost,
                                               profit_loss |-> profit_loss,
                                               outcome |-> outcome]]
    /\ UNCHANGED <<monitorVars, decisionVars, ledgerVars, queryVars, scannerVars,
                   growthVars, whaleVars, flowLogVars>>

\* ORDER BY expiration ASC, rows of one expiration in the order of their ids.
RECURSIVE OrderByExpiration(_)
OrderByExpiration(rows) ==
    IF Len(rows) <= 1 THEN rows
    ELSE LET first == CHOOSE i \in 1..Len(rows) :
                 /\ \A j \in 1..Len(rows) : rows[i].expiration <= rows[j].expiration
                 /\ \A j \in 1..(i - 1) : rows[i].expiration < rows[j].expiration
             others == [j \in 1..(Len(rows) - 1) |->
                           IF j < first THEN rows[j] ELSE rows[j + 1]]
         IN  <<rows[first]>> \o OrderByExpiration(others)

\* get_active_trades(): WHERE decision = 'TAKE' AND outcome IS NULL
GetActiveTrades(rows) ==
    OrderByExpiration(SelectSeq(rows,
        LAMBDA row : row.decision = Some("TAKE") /\ row.outcome = None))

GetActiveTradesCall ==
    /\ tcall' = [call |-> "get_active_trades", id |-> 0, ret |-> GetActiveTrades(trades)]
    /\ UNCHANGED <<trades, monitorVars, decisionVars, ledgerVars, queryVars, scannerVars,
                   growthVars, whaleVars, flowLogVars>>

(***************************************************************************)
(* The monitoring pass over the tracker's rows, and the alert filter.      *)
(***************************************************************************)

\* dict(row) as _analyze_position reads it: a key that is no column of the
\* table is missing from the dict.
TradeOfRow(row) ==
    LET has(column) == \E k \in 1..Len(Columns) : Columns[k] = column
    IN  [symbol |-> row.symbol, strike |-> row.strike, premium |-> row.premium,
         expiration |-> row.expiration,
         underlying_price |-> IF has("underlying_price")
                              THEN Some(row["underlying_price"]) ELSE None,
         original_dte |-> IF has("original_dte") THEN Some(row["original_dte"]) ELSE None]

NoAlerts == [close_now |-> <<>>, monitor |-> <<>>, approaching_21dte |-> <<>>,
             all_clear |-> <<>>]

\* The loop of check_positions over active_trades[i..]: the alerts, or
\* Raised(exception) when _analyze_position raises.
RECURSIVE CheckLoop(_, _, _, _, _)
CheckLoop(active_trades, i, current_prices, atMidnight, alerts) ==
    IF i > Len(active_trades) THEN alerts
    ELSE LET trade == TradeOfRow(active_trades[i])
             price == IF trade.symbol \in DOMAIN current_prices
                      THEN Some(current_prices[trade.symbol]) ELSE None
             analysis == AnalyzePosition(trade, price, NowDay, atMidnight)
             category == IF analysis.action = "CLOSE_NOW" THEN "close_now"
                         ELSE IF analysis.action = "MONITOR" THEN "monitor"
                         ELSE IF analysis.action = "APPROACHING" THEN "approaching_21dte"
                         ELSE "all_clear"
         IN  IF analysis.status # "ok" THEN Raised(analysis.status)
             ELSE CheckLoop(active_trades, i + 1, current_prices, atMidnight,
                            [alerts EXCEPT ![category] = Append(@, analysis)])

\* check_positions(current_prices)
CheckPositions(rows, current_prices, atMidnight) ==
    CheckLoop(GetActiveTrades(rows), 1, current_prices, atMidnight, NoAlerts)

\* The current_prices dicts of a pass.
CurrentPrices == {<<>>, [s \in {"AAPL"} |-> 9900]}

\* One monitoring pass over the tracker's open trades.
CheckPositionsCall(current_prices, atMidnight) ==
    /\ mcall' = [call |-> "check_positions", done |-> TRUE,
                 active_trades |-> GetActiveTrades(trades),
                 result |-> CheckPositions(trades, current_prices, atMidnight)]
    /\ UNCHANGED <<alerts_shown, trackerVars, decisionVars, ledgerVars, queryVars,
                   scannerVars, growthVars, whaleVars, flowLogVars>>

InitTracker ==
    /\ trades = <<>>
    /\ tcall = NoCall
    /\ MonitorIdle
    /\ DecisionsIdle
    /\ LedgerIdle
    /\ QueriesIdle
    /\ AnalysisIdle
    /\ FlowLogIdle

NextTracker ==
    \/ \E trade_data \in TradeDatas : TrackerLogOpportunity(trade_data)
    \/ \E id \in TradeIds, d \in TrackerDecisions, n \in TrackerContracts :
           TrackerUpdateDecision(id, d, n)
    \/ \E id \in TradeIds, price \in ClosingPrices, outcome \in CloseOutcomes :
           CloseTrade(id, price, outcome)
    \/ GetActiveTradesCall
    \/ \E current_prices \in CurrentPrices, atMidnight \in BOOLEAN :
           CheckPositionsCall(current_prices, atMidnight)

SpecTracker == InitTracker /\ [][NextTracker]_vars

\* Row i of the table is an open trade: taken and without an outcome.
IsActive(row) == row.decision = Some("TAKE") /\ row.outcome = None

\* C27 as stated: a logged opportunity is returned by get_active_trades
\* exactly while its decision is TAKE and its outcome is unset, and for such a
\* trade with n contracts close_trade(id, price, outcome) with a valid outcome
\* succeeds, records the outcome and profit_loss = premium * n * 100 - price *
\* n * 100, after which the trade is not active.
C27_Original ==
    [][/\ \A i \in 1..Len(trades) :
              IsActive(trades[i])
                  <=> \E k \in 1..Len(GetActiveTrades(trades)) :
                          GetActiveTrades(trades)[k].id = i
       /\ (/\ tcall'.call = "close_trade"
           /\ tcall'.id \in 1..Len(trades)
           /\ IsActive(trades[tcall'.id])
           /\ tcall'.ret # Raised("ValueError"))
              => LET before == trades[tcall'.id]
                     after == trades'[tcall'.id]
                 IN  /\ ~HasRaised(tcall'.ret)
                     /\ tcall'.ret.success
                     /\ after.outcome # None
                     /\ after.profit_loss
                            = Some(before.premium * before.contracts
                                   - after.closing_price[1] * before.contracts)
                     /\ ~IsActive(after)]_vars

\* C28 as stated: a monitoring pass completes without raising for every set
\* of active trades get_active_trades can return, and places each active trade
\* in exactly one of close_now, monitor, approaching_21dte and all_clear, the
\* one that matches its action.
C28_Original ==
    mcall.call = "check_positions" =>
        /\ ~HasRaised(mcall.result)
        /\ \A k \in 1..Len(mcall.active_trades) :
               LET id == AlertId(mcall.active_trades[k].symbol,
                                 mcall.active_trades[k].strike,
                                 mcall.active_trades[k].expiration, "")
                   in(category, actions) ==
                       {j \in 1..Len(mcall.result[category]) :
                           /\ mcall.result[category][j].alert_id
                                  = id \o mcall.result[category][j].action
                           /\ mcall.result[category][j].action \in actions}
               IN  Cardinality(in("close_now", {"CLOSE_NOW"}))
                   + Cardinality(in("monitor", {"MONITOR"}))
                   + Cardinality(in("approaching_21dte", {"APPROACHING"}))
                   + Cardinality(in("all_clear", {"NONE"})) >= 1
        /\ Len(mcall.result.close_now) + Len(mcall.result.monitor)
               + Len(mcall.result.approaching_21dte) + Len(mcall.result.all_clear)
               = Len(mcall.active_trades)

\* Python's "word in text" for two strings.
Contains(text, word) ==
    \E i \in 1..(Len(text) - Len(word) + 1) : SubSeq(text, i, i + Len(word) - 1) = word

\* should_show_alert(alert_id): <<the returned value, alerts_shown after>>.
ShouldShowAlert(alert_id, shown) ==
    IF alert_id \notin shown THEN <<TRUE, shown \cup {alert_id}>>
    ELSE IF Contains(alert_id, "CRITICAL") \/ Contains(alert_id, "URGENT") THEN <<TRUE, shown>>
    ELSE <<FALSE, shown>>

\* The trades and prices whose analyses are shown as alerts.
AlertTrades ==
    {trade \in MonitorTrades :
        /\ trade.premium = 215
        /\ trade.underlying_price = Some(9500)
        /\ trade.original_dte = Some(30)
        /\ trade.expiration \in {NowDay + 1, NowDay + 3, NowDay + 6, NowDay + 15, NowDay + 25}}

\* The analyses _analyze_position returns for them.
AlertAnalyses ==
    {analysis \in {AnalyzePosition(trade, price, NowDay, atMidnight) :
                      trade \in AlertTrades, price \in {Some(9000), Some(10300)},
                      atMidnight \in BOOLEAN} : analysis.status = "ok"}

\* The alert filter asked about one analysis' alert.
ShouldShowAlertCall(analysis) ==
    LET r == ShouldShowAlert(analysis.alert_id, alerts_shown)
    IN  /\ alerts_shown' = r[2]
        /\ mcall' = [call |-> "should_show_alert", alert_id |-> analysis.alert_id,
                     priority |-> analysis.priority, ret |-> r[1]]
        /\ UNCHANGED <<trackerVars, decisionVars, ledgerVars, queryVars, scannerVars,
                       growthVars, whaleVars, flowLogVars>>

InitAlerts ==
    /\ MonitorIdle
    /\ TrackerIdle
    /\ DecisionsIdle
    /\ LedgerIdle
    /\ QueriesIdle
    /\ AnalysisIdle
    /\ FlowLogIdle

NextAlerts == \E analysis \in AlertAnalyses : ShouldShowAlertCall(analysis)

SpecAlerts == InitAlerts /\ [][NextAlerts]_vars

\* C30 as stated: should_show_alert, called with an alert id that
\* _analyze_position built, returns True when the id has not been seen; for an
\* id seen before it returns True when the alert's priority is CRITICAL or
\* URGENT and False for every other alert.
C30_Original ==
    [][mcall'.call = "should_show_alert" =>
           mcall'.ret = (\/ mcall'.alert_id \notin alerts_shown
                         \/ mcall'.priority \in {"CRITICAL", "URGENT"})]_vars

=============================================================================
